---- MODULE Spec2Model ----
(***************************************************************************)
(* GitHub-to-store synchronisation of modern-cms-single-a1: the deployed   *)
(* webhook route (src/app/api/webhooks/github/[tenantId]/route.ts), the    *)
(* template webhook handler with its store queries                         *)
(* (TEMPLATE_github_webhook.ts, TEMPLATE_db_queries.ts) and the bulk sync  *)
(* script (scripts/recursive-sync.ts).                                     *)
(*                                                                         *)
(* Strings the code takes apart (paths, refs, slugs) are sequences of      *)
(* one-character strings, so that String.replace, startsWith and endsWith  *)
(* are computed as JavaScript computes them.  An HMAC digest is a symbolic *)
(* term: Mac(alg, body) is the hex digest of body under the configured     *)
(* secret, Junk(n) is any other string of n characters.                    *)
(***************************************************************************)
EXTENDS Integers, Sequences, FiniteSets, TLC

VARIABLES
    secretSet,      \* process.env.GITHUB_WEBHOOK_SECRET is configured
    handler,        \* which POST handles the delivery: "none", "route", "template"
    pc,             \* position of the handler in its code
    req,            \* the delivery being handled
    status,         \* HTTP status of the response (0: none yet)
    invoked,        \* route.ts: the event processors called for this delivery
    syncTriggered,  \* the handler decided that this delivery is to be synced
    fetched,        \* paths fetchFileFromGitHub was called with for this delivery
    writes,         \* store write functions called for this delivery
    processed,      \* the counts the success response carries (template)
    contentFiles,   \* template: content files still to process
    settingFiles,   \* template: setting files still to process
    contentUpdates, \* template: processContentFiles' contentUpdates
    newContents,    \* template: processContentFiles' newContents
    contents,       \* store: the contents table, slug -> record
    settings,       \* store: the settings table, key -> value
    storeAtStart,   \* the store when this delivery (or run) started
    rs,             \* the state of a recursiveSync run
    db,             \* the database with its schema: rows with ids and timestamps
    now,            \* the wall clock
    inv,            \* the sync invocations running against db, one per process
    calc            \* the last evaluation of a pure function of the sync paths

vars == <<secretSet, handler, pc, req, status, invoked, syncTriggered, fetched,
          writes, processed, contentFiles, settingFiles, contentUpdates,
          newContents, contents, settings, storeAtStart, rs, db, now, inv,
          calc>>

\* the state of the concurrent invocations
ConcurrentVars == <<db, now, inv>>

\* the state of the deliveries and runs that are handled one at a time
SequentialVars ==
    <<secretSet, handler, pc, req, status, invoked, syncTriggered, fetched,
      writes, processed, contentFiles, settingFiles, contentUpdates,
      newContents, contents, settings, storeAtStart, rs>>

----------------------------------------------------------------------------
(* Strings as sequences of characters.                                     *)

S_contents == <<"c","o","n","t","e","n","t","s","/">>

S_settings == <<"s","e","t","t","i","n","g","s","/">>

S_mdx == <<".","m","d","x">>

S_json == <<".","j","s","o","n">>

S_slashIndex == <<"/","i","n","d","e","x">>

S_index == <<"i","n","d","e","x">>

S_refsHeads == <<"r","e","f","s","/","h","e","a","d","s","/">>

S_refsTags == <<"r","e","f","s","/","t","a","g","s","/">>

S_main == <<"m","a","i","n">>

S_dev == <<"d","e","v">>

S_sha256eq == <<"s","h","a","2","5","6","=">>

S_sha1eq == <<"s","h","a","1","=">>

S_md5eq == <<"m","d","5","=">>

\* s has pat at position i
MatchesAt(s, pat, i) ==
    /\ i >= 1
    /\ i + Len(pat) - 1 <= Len(s)
    /\ \A k \in 1..Len(pat) : s[i + k - 1] = pat[k]

\* String.prototype.startsWith
StartsWith(s, pat) == MatchesAt(s, pat, 1)

\* String.prototype.endsWith
EndsWith(s, pat) == MatchesAt(s, pat, Len(s) - Len(pat) + 1)

\* String.prototype.indexOf, 1-based; 0 when pat does not occur
IndexOf(s, pat) ==
    LET hits == {i \in 1..(Len(s) - Len(pat) + 1) : MatchesAt(s, pat, i)}
    IN  IF hits = {} THEN 0 ELSE CHOOSE i \in hits : \A j \in hits : i <= j

\* String.prototype.replace with a string pattern: the first occurrence only
ReplaceFirst(s, pat, rep) ==
    LET i == IndexOf(s, pat)
    IN  IF i = 0 THEN s
        ELSE SubSeq(s, 1, i - 1) \o rep \o SubSeq(s, i + Len(pat), Len(s))

\* String.prototype.replace with the pattern /<pat>$/
ReplaceAtEnd(s, pat, rep) ==
    IF EndsWith(s, pat) THEN SubSeq(s, 1, Len(s) - Len(pat)) \o rep ELSE s

----------------------------------------------------------------------------
(* Signatures.                                                             *)

\* hex length of an HMAC-SHA256 digest
Sha256HexLen == 64

\* hex length of an HMAC-SHA1 digest
Sha1HexLen == 40

\* how far the length of a forged signature may differ from a digest's
MaxLenSkew == 1

\* crypto.createHmac(alg, secret).update(payload).digest('hex')
Mac(alg, body) == [kind |-> "mac", alg |-> alg, body |-> <<body>>, len |-> 0]

\* any other string of n characters
Junk(n) == [kind |-> "junk", alg |-> "none", body |-> <<>>, len |-> n]

HexLen(h) ==
    IF h.kind = "junk" THEN h.len
    ELSE IF h.alg = "sha256" THEN Sha256HexLen ELSE Sha1HexLen

\* a signature header: the part up to and including '=', then the rest
Header(pre, hex) == [present |-> TRUE, pre |-> pre, hex |-> hex]

\* headers.get(...) of a header the request does not carry
NoHeader == [present |-> FALSE, pre |-> <<>>, hex |-> Junk(0)]

\* Buffer.from(signature).length
ByteLen(sig) == Len(sig.pre) + HexLen(sig.hex)

\* JavaScript's !signature: null, or the empty string
Falsy(sig) == ~sig.present \/ ByteLen(sig) = 0

\* 'sha256=' + HMAC-SHA256(secret, payload)
Expected256(body) == Header(S_sha256eq, Mac("sha256", body))

\* 'sha1=' + HMAC-SHA1(secret, payload)
Expected1(body) == Header(S_sha1eq, Mac("sha1", body))

\* crypto.timingSafeEqual: throws a RangeError on buffers of different
\* byte length, else compares them
TimingSafeEqual(a, b) ==
    IF ByteLen(a) # ByteLen(b) THEN "throw"
    ELSE IF a = b THEN "true" ELSE "false"

\* route.ts verifyGitHubSignature: "true", "false", or "throw"
RouteVerifyGitHubSignature(payload, signature, secret) ==
    IF Falsy(signature) \/ ~secret THEN "false"
    ELSE TimingSafeEqual(signature, Expected256(payload))

\* verifyGitHubSignature that stops after the length check
TemplateVerifyLengthOnly(payload, signature, secret) ==
    IF Falsy(signature) \/ ~secret THEN FALSE
    ELSE IF signature.pre = S_sha256eq
         THEN ByteLen(signature) = ByteLen(Expected256(payload))
    ELSE IF signature.pre = S_sha1eq
         THEN ByteLen(signature) = ByteLen(Expected1(payload))
    ELSE FALSE

\* TEMPLATE_github_webhook.ts verifyGitHubSignature; the try/catch turns a
\* throw into false
TemplateVerifyGitHubSignature(payload, signature, secret) ==
    IF Falsy(signature) \/ ~secret THEN FALSE
    ELSE IF signature.pre = S_sha256eq
         THEN /\ ByteLen(signature) = ByteLen(Expected256(payload))
              /\ TimingSafeEqual(signature, Expected256(payload)) = "true"
    ELSE IF signature.pre = S_sha1eq
         THEN /\ ByteLen(signature) = ByteLen(Expected1(payload))
              /\ TimingSafeEqual(signature, Expected1(payload)) = "true"
    ELSE FALSE

----------------------------------------------------------------------------
(* Paths, and the files a delivery or a repository tree can name.          *)

P_a == S_contents \o <<"a">> \o S_mdx

P_aIndex == S_contents \o <<"a">> \o S_slashIndex \o S_mdx

P_index == S_contents \o S_index \o S_mdx

P_site == S_settings \o <<"s","i","t","e">> \o S_json

P_readme == <<"R","E","A","D","M","E",".","m","d">>

\* one commit of a push event
Commit(a, m, r) == [added |-> a, modified |-> m, removed |-> r]

\* the commit lists push events carry
CommitLists ==
    { <<>>,
      << Commit(<<P_a>>, <<P_site>>, <<P_readme>>) >>,
      << Commit(<<P_a, P_aIndex, P_index>>, <<>>, <<>>) >>,
      << Commit(<<P_index>>, <<>>, <<>>), Commit(<<>>, <<P_index>>, <<P_a>>) >> }

\* the refs push events carry: branches, a tag, and a bare branch name
Refs ==
    { S_refsHeads \o S_main, S_refsHeads \o S_dev, S_refsTags \o S_main, S_main }

Branches == { S_main, S_dev }

----------------------------------------------------------------------------
(* Request bodies.  The raw body is identified with what JSON.parse makes  *)
(* of it: a syntax error (wellFormed = FALSE) or a payload.  A well-formed *)
(* body has the shape GitHub sends for the event its header names          *)
(* (GitHubWebhookPayload, PushEvent, PullRequestEvent).                    *)

Body(wf, event, ref, branch, commits, after, action, merged, base, sha) ==
    [ wellFormed |-> wf, event |-> event, ref |-> ref,
      default_branch |-> branch, commits |-> commits, after |-> after,
      action |-> action, merged |-> merged, base_ref |-> base,
      merge_commit_sha |-> sha ]

MalformedBody ==
    Body(FALSE, "none", <<>>, <<>>, <<>>, "", "", FALSE, <<>>, "")

PushBodies ==
    { Body(TRUE, "push", r, b, c, "after", "", FALSE, <<>>, "") :
        r \in Refs, b \in Branches, c \in CommitLists }

\* merge_commit_sha is null until the pull request is merged
PullRequestBodies ==
    { Body(TRUE, "pull_request", <<>>, S_main, <<>>, "", a, m, b,
           IF m THEN "merge" ELSE "") :
        a \in {"closed", "opened"}, m \in BOOLEAN, b \in Branches }

PingBody == Body(TRUE, "ping", <<>>, S_main, <<>>, "", "", FALSE, <<>>, "")

OtherBody == Body(TRUE, "issues", <<>>, S_main, <<>>, "", "opened", FALSE, <<>>, "")

\* the bodies a delivery announcing `event` can carry
BodiesFor(event) ==
    {MalformedBody} \cup
    (CASE event = "push" -> PushBodies
       [] event = "pull_request" -> PullRequestBodies
       [] event = "ping" -> {PingBody}
       [] OTHER -> {OtherBody})

\* the x-github-event values; "" is a request without the header
Events == {"push", "pull_request", "ping", "issues", ""}

\* lengths of forged digests: none, a digest's, and up to MaxLenSkew off
JunkLens ==
    {0, Sha1HexLen, Sha256HexLen}
    \cup {Sha256HexLen + k : k \in 1..MaxLenSkew}
    \cup {Sha256HexLen - k : k \in 1..MaxLenSkew}

\* the x-hub-signature-256 values sent with `body`
SignaturesFor(body) ==
    {NoHeader, Expected256(body), Expected1(body)}
    \cup {Header(p, Junk(n)) : p \in {<<>>, S_sha256eq, S_sha1eq, S_md5eq},
                               n \in JunkLens}

\* the legacy x-hub-signature values sent with `body`
LegacySignaturesFor(body) ==
    {NoHeader, Expected1(body), Header(S_sha1eq, Junk(Sha1HexLen))}

\* the files a pull request changed (the payload does not list them)
PullRequestFiles == { {}, {P_a, P_site} }

\* a delivery: the tenantId check's outcome, the x-github-event,
\* x-hub-signature-256 and x-hub-signature headers, the raw body, and for a
\* pull request the files it changed
Request(tenantOk, event, sig, sig1, body, prFiles) ==
    [ tenantOk |-> tenantOk, event |-> event, sig |-> sig, sig1 |-> sig1,
      body |-> body, prFiles |-> prFiles ]

NoRequest == Request(FALSE, "", NoHeader, NoHeader, MalformedBody, {})

----------------------------------------------------------------------------
(* What a fetch of a file can give.                                        *)

\* front-matter as gray-matter returns it; "" and <<>> are absent fields
Frontmatter(slug, title, description, st, accessLevel, access_level) ==
    [ slug |-> slug, title |-> title, description |-> description,
      status |-> st, accessLevel |-> accessLevel, access_level |-> access_level ]

FM_empty == Frontmatter(<<>>, <<>>, "", "", "", "")

FM_full == Frontmatter(<<"a">>, <<"T">>, "About", "draft", "private", "")

S_Untitled == <<"U","n","t","i","t","l","e","d">>

\* the outcome of fetching and parsing an article file
FileOutcome(kind, fm, content) == [kind |-> kind, fm |-> fm, content |-> content]

\* fetchFileFromGitHub returned null: a 404, or any error it caught
FetchedNull == FileOutcome("null", FM_empty, "")

\* the file was fetched and gray-matter threw on it
FetchedMalformed == FileOutcome("malformed", FM_empty, "")

FetchedDocs ==
    { FileOutcome("doc", FM_empty, "body1"), FileOutcome("doc", FM_full, "body2") }

ContentOutcomes == {FetchedNull, FetchedMalformed} \cup FetchedDocs

\* JSON.stringify(v)
JsonStringify(v) == [enc |-> "json", val |-> v]

\* a JSON value a settings file holds
JsonValue(type, v) == [type |-> type, v |-> v]

\* JSON.parse(text): the value a text made by JSON.stringify denotes; a
\* SyntaxError on the bare characters of a string, which are no JSON text
JsonParse(text) ==
    IF text.enc = "json" THEN [ok |-> TRUE, value |-> text.val]
    ELSE [ok |-> FALSE, value |-> JsonValue("null", "")]

\* the outcome of fetching and parsing a settings file
SettingOutcome(kind, value) == [kind |-> kind, value |-> value]

SettingOutcomes ==
    { SettingOutcome("null", JsonValue("null", "")),
      SettingOutcome("malformed", JsonValue("null", "")),
      SettingOutcome("json", JsonValue("object", "site1")),
      SettingOutcome("json", JsonValue("string", "site2")) }

----------------------------------------------------------------------------
(* The store (TEMPLATE_db_queries.ts over the drizzle schema).  A table is *)
(* a function from its unique column to the rest of the row, so the UNIQUE *)
(* constraints of the schema hold by construction and an insert of a       *)
(* present key is the constraint violation.                                *)

EmptyTable == << >>

Store == [contents |-> contents, settings |-> settings]

Put(tbl, k, v) == [x \in DOMAIN tbl \cup {k} |-> IF x = k THEN v ELSE tbl[x]]

\* getContentBySlug(slug) found a row
HasContent(tbl, slug) == slug \in DOMAIN tbl

\* the syncable columns of a contents row
ContentRow(title, description, content_raw, frontmatter, st, access_level) ==
    [ title |-> title, description |-> description, content_raw |-> content_raw,
      frontmatter |-> frontmatter, status |-> st, access_level |-> access_level ]

\* a || b on strings
OrElse(a, b) == IF a = "" THEN b ELSE a

\* a || b on strings kept as character sequences
OrElseSeq(a, b) == IF a = <<>> THEN b ELSE a

\* result of a batch: ok = FALSE is the thrown DatabaseError, with the
\* transaction rolled back
BatchResult(ok, tbl) == [ok |-> ok, tbl |-> tbl]

\* batchUpdateContents: one transaction; a slug without a row is skipped
RECURSIVE ApplyUpdates(_, _)
ApplyUpdates(tbl, updates) ==
    IF updates = <<>> THEN tbl
    ELSE LET u == Head(updates)
         IN  ApplyUpdates(IF HasContent(tbl, u.slug) THEN Put(tbl, u.slug, u.data)
                          ELSE tbl,
                          Tail(updates))

BatchUpdateContents(tbl, updates) == BatchResult(TRUE, ApplyUpdates(tbl, updates))

\* the inserts of batchCreateContents, in order, inside its transaction:
\* "fail" when one of them violates contents_slug_unique
RECURSIVE ApplyInserts(_, _)
ApplyInserts(tbl, list) ==
    IF list = <<>> THEN BatchResult(TRUE, tbl)
    ELSE LET c == Head(list)
         IN  IF HasContent(tbl, c.slug) THEN BatchResult(FALSE, tbl)
             ELSE ApplyInserts(Put(tbl, c.slug, c.data), Tail(list))

\* batchCreateContents under withTransaction: all inserts, or none and a
\* DatabaseError
BatchCreateContents(tbl, list) ==
    LET r == ApplyInserts(tbl, list)
    IN  IF r.ok THEN r ELSE BatchResult(FALSE, tbl)

\* what updateSettings stores: a string as it is, anything else stringified
SettingValueString(value) ==
    IF value.type = "string" THEN [enc |-> "raw", val |-> value]
    ELSE JsonStringify(value)

\* updateSettings: insert ... onConflictDoUpdate
UpdateSettings(tbl, key, value) == Put(tbl, key, SettingValueString(value))

----------------------------------------------------------------------------
(* TEMPLATE_github_webhook.ts: the pure parts.                             *)

\* shouldProcessEvent without the comparison of the base ref
ShouldProcessEventAnyBase(event, eventType) ==
    IF eventType = "push"
    THEN ReplaceFirst(event.ref, S_refsHeads, <<>>) = event.default_branch
    ELSE IF eventType = "pull_request"
    THEN event.action = "closed" /\ event.merged = TRUE
    ELSE FALSE

\* shouldProcessEvent that accepts the events it does not know
ShouldProcessEventDefaultTrue(event, eventType) ==
    IF eventType = "push"
    THEN ReplaceFirst(event.ref, S_refsHeads, <<>>) = event.default_branch
    ELSE IF eventType = "pull_request"
    THEN /\ event.action = "closed"
         /\ event.merged = TRUE
         /\ event.base_ref = event.default_branch
    ELSE TRUE

\* shouldProcessEvent
ShouldProcessEvent(event, eventType) ==
    IF eventType = "push"
    THEN ReplaceFirst(event.ref, S_refsHeads, <<>>) = event.default_branch
    ELSE IF eventType = "pull_request"
    THEN /\ event.action = "closed"
         /\ event.merged = TRUE
         /\ event.base_ref = event.default_branch
    ELSE FALSE

\* [...new Set(files)]: the first occurrence of each element, in order
RECURSIVE Dedupe(_)
Dedupe(files) ==
    IF files = <<>> THEN <<>>
    ELSE LET rest == Dedupe(SubSeq(files, 1, Len(files) - 1))
             last == files[Len(files)]
         IN  IF \E i \in 1..Len(rest) : rest[i] = last THEN rest
             ELSE Append(rest, last)

RECURSIVE CommitFiles(_)
CommitFiles(commits) ==
    IF commits = <<>> THEN <<>>
    ELSE Head(commits).added \o Head(commits).modified \o Head(commits).removed
         \o CommitFiles(Tail(commits))

\* extractChangedFiles: nothing for a pull request
ExtractChangedFiles(event, eventType) ==
    IF eventType = "push" THEN Dedupe(CommitFiles(event.commits)) ELSE <<>>

\* a filter for articles that looks at the extension only
IsContentFileByExtension(file) == EndsWith(file, S_mdx)

IsContentFile(file) == StartsWith(file, S_contents) /\ EndsWith(file, S_mdx)

IsSettingFile(file) == StartsWith(file, S_settings) /\ EndsWith(file, S_json)

\* filterRelevantFiles(files).contentFiles
FilterContentFiles(files) == SelectSeq(files, IsContentFile)

\* filterRelevantFiles(files).settingFiles
FilterSettingFiles(files) == SelectSeq(files, IsSettingFile)

\* the commit ref POST fetches at: after, or the merge commit
CommitRef(event, eventType) ==
    IF eventType = "push" THEN event.after ELSE event.merge_commit_sha

\* processContentFiles: the slug of a file
TemplateSlug(fm, filePath) ==
    IF fm.slug # <<>> THEN fm.slug
    ELSE ReplaceAtEnd(ReplaceFirst(ReplaceFirst(filePath, S_contents, <<>>),
                                   S_mdx, <<>>),
                      S_slashIndex, <<>>)

\* processContentFiles: contentData
TemplateContentData(fm, content) ==
    ContentRow(OrElseSeq(fm.title, S_Untitled), OrElse(fm.description, "<null>"),
               content, JsonStringify(fm), OrElse(fm.status, "published"),
               OrElse(fm.accessLevel, "public"))

\* processSettingsFiles: the key of a file
TemplateSettingKey(filePath) ==
    ReplaceFirst(ReplaceFirst(filePath, S_settings, <<>>), S_json, <<>>)

\* POST: the signature it verifies
TemplateSignature(r) == IF ~Falsy(r.sig) THEN r.sig ELSE r.sig1

----------------------------------------------------------------------------
(* route.ts: the pure parts.                                               *)

\* hasContentChanges
HasContentChanges(payload) ==
    \E i \in 1..Len(payload.commits) :
        LET allFiles == payload.commits[i].added \o payload.commits[i].modified
                        \o payload.commits[i].removed
        IN  \E k \in 1..Len(allFiles) :
                IsContentFile(allFiles[k]) \/ IsSettingFile(allFiles[k])

\* processPushEvent reaches "triggering sync"
RoutePushSyncs(payload) ==
    /\ payload.ref = S_refsHeads \o payload.default_branch
    /\ HasContentChanges(payload)

\* processPullRequestEvent reaches "triggering sync"
RoutePullRequestSyncs(payload) ==
    ~ \/ payload.action # "closed"
      \/ ~payload.merged
      \/ payload.base_ref # payload.default_branch

----------------------------------------------------------------------------
(* The database with its schema (drizzle/0000_petite_natasha_romanoff.sql, *)
(* lib/db/schema): a table is a set of rows, each with its autoincrement   *)
(* id and its timestamps, and the unique indexes are checked by the        *)
(* statements.                                                             *)

\* how far the wall clock runs
MaxClock == 1

\* CURRENT_TIMESTAMP, the default of created_at and updated_at:
\* 'YYYY-MM-DD HH:MM:SS'
SqlTimestamp(t) == [t |-> t, fmt |-> "sql"]

\* new Date().toISOString(): 'YYYY-MM-DDTHH:MM:SS.sssZ'
IsoTimestamp(t) == [t |-> t, fmt |-> "iso"]

\* new Date() bound to a text column
DateTimestamp(t) == [t |-> t, fmt |-> "date"]

\* a row of contents
ContentRecord(id, slug, fields, created_at, updated_at) ==
    [ id |-> id, slug |-> slug, fields |-> fields, created_at |-> created_at,
      updated_at |-> updated_at ]

\* a row of settings
SettingRecord(id, key, value, updated_at) ==
    [id |-> id, key |-> key, value |-> value, updated_at |-> updated_at]

\* the database: its two tables and the last autoincrement id handed out
Database(c, s, seq) == [contents |-> c, settings |-> s, seq |-> seq]

EmptyDb == Database({}, {}, 0)

\* select ... from contents where slug = ?
SelectBySlug(d, slug) == {r \in d.contents : r.slug = slug}

\* select ... from settings where key = ?
SelectByKey(d, key) == {r \in d.settings : r.key = key}

\* a contents table without its unique index
ContentsSlugUniqueAbsent(d, slug) == TRUE

\* the index contents_slug_unique admits a row with this slug
ContentsSlugUnique(d, slug) == SelectBySlug(d, slug) = {}

\* the index settings_key_unique admits a row with this key
SettingsKeyUnique(d, key) == SelectByKey(d, key) = {}

\* the outcome of a statement: ok = FALSE is the error it threw, and then
\* the database is as it was
Outcome(ok, d) == [ok |-> ok, db |-> d]

\* insert into contents: a row that breaks the unique index is refused
InsertContent(d, slug, fields, created_at, updated_at) ==
    IF ~ContentsSlugUnique(d, slug) THEN Outcome(FALSE, d)
    ELSE Outcome(TRUE,
           Database(d.contents \cup
                      {ContentRecord(d.seq + 1, slug, fields, created_at,
                                     updated_at)},
                    d.settings, d.seq + 1))

\* an update that deletes the rows it should rewrite
UpdateContentsDropping(d, hit, fields, updated_at) ==
    Database(d.contents \ hit, d.settings, d.seq)

\* update contents set <fields>, updated_at where <the rows in hit>
UpdateContents(d, hit, fields, updated_at) ==
    Database({ IF r \in hit
               THEN ContentRecord(r.id, r.slug, fields, r.created_at, updated_at)
               ELSE r : r \in d.contents },
             d.settings, d.seq)

\* insert into settings: a row that breaks the unique index is refused
InsertSetting(d, key, value, updated_at) ==
    IF ~SettingsKeyUnique(d, key) THEN Outcome(FALSE, d)
    ELSE Outcome(TRUE,
           Database(d.contents,
                    d.settings \cup {SettingRecord(d.seq + 1, key, value, updated_at)},
                    d.seq + 1))

\* update settings set value, updated_at where key = ?
UpdateSettingRows(d, key, value, updated_at) ==
    Database(d.contents,
             { IF r.key = key THEN SettingRecord(r.id, r.key, value, updated_at)
               ELSE r : r \in d.settings },
             d.seq)

\* a lookup by slug that never finds a row
FirstBySlugBlind(d, slug) == {}

\* getContentBySlug / findFirst: the first row with the slug, if any
FirstBySlug(d, slug) ==
    LET hit == SelectBySlug(d, slug)
    IN  IF hit = {} THEN {} ELSE {CHOOSE r \in hit : \A q \in hit : r.id <= q.id}

\* an upsert of recursiveSync that replaces the row it meets
UpsertContentRowReplacing(d, slug, fields, t) ==
    InsertContent(Database(d.contents \ SelectBySlug(d, slug), d.settings, d.seq),
                  slug, fields, SqlTimestamp(t), SqlTimestamp(t)).db

\* an upsert of recursiveSync that sets only content_raw on conflict
UpsertContentRowBodyOnly(d, slug, fields, t) ==
    IF ContentsSlugUnique(d, slug)
    THEN InsertContent(d, slug, fields, SqlTimestamp(t), SqlTimestamp(t)).db
    ELSE Database({ IF r.slug = slug
                    THEN ContentRecord(r.id, r.slug,
                           [r.fields EXCEPT !.content_raw = fields.content_raw],
                           r.created_at, IsoTimestamp(t))
                    ELSE r : r \in d.contents },
                  d.settings, d.seq)

\* recursiveSync's statement for an article: insert into contents ...
\* onConflictDoUpdate on slug, the timestamps of a new row by default, the
\* updated_at of a met row from the script's clock
UpsertContentRow(d, slug, fields, t) ==
    IF ContentsSlugUnique(d, slug)
    THEN InsertContent(d, slug, fields, SqlTimestamp(t), SqlTimestamp(t)).db
    ELSE UpdateContents(d, SelectBySlug(d, slug), fields, IsoTimestamp(t))

\* insert into settings ... onConflictDoUpdate on key
UpsertSettingRow(d, key, value, inserted_at, updated_at) ==
    IF SettingsKeyUnique(d, key)
    THEN InsertSetting(d, key, value, inserted_at).db
    ELSE UpdateSettingRows(d, key, value, updated_at)

\* the updates of batchUpdateContents in its transaction
RECURSIVE DbApplyUpdates(_, _, _)
DbApplyUpdates(d, updates, t) ==
    IF updates = <<>> THEN d
    ELSE LET u == Head(updates)
         IN  DbApplyUpdates(UpdateContents(d, FirstBySlug(d, u.slug), u.data,
                                           DateTimestamp(t)),
                            Tail(updates), t)

\* the inserts of batchCreateContents in its transaction
RECURSIVE DbApplyInserts(_, _, _)
DbApplyInserts(d, list, t) ==
    IF list = <<>> THEN Outcome(TRUE, d)
    ELSE LET c == Head(list)
             r == InsertContent(d, c.slug, c.data, DateTimestamp(t),
                                DateTimestamp(t))
         IN  IF r.ok THEN DbApplyInserts(r.db, Tail(list), t) ELSE r

\* batchCreateContents under withTransaction: all the inserts, or none and
\* a DatabaseError
DbBatchCreateContents(d, list, t) ==
    LET r == DbApplyInserts(d, list, t)
    IN  IF r.ok THEN r ELSE Outcome(FALSE, d)

\* the slugs and the keys the database holds
Slugs(d) == {r.slug : r \in d.contents}

Keys(d) == {r.key : r \in d.settings}

----------------------------------------------------------------------------
(* Sync invocations that run at the same time against the database: each   *)
(* process runs one invocation, and the steps of the processes interleave  *)
(* at the awaits of the code.                                              *)

Procs == {1, 2}

\* what an invocation noted about one file: the path, the slug or key, what
\* the fetch gave, the fields it wrote or meant to write, when, and what was
\* done ("synced", "skipped", "update", "create", "failed")
LogEntry(kind, path, key, o, fields, at) ==
    [ kind |-> kind, path |-> path, key |-> key, o |-> o, fields |-> fields,
      at |-> at ]

\* what an invocation noted about one settings file: "setting" when its
\* value was written, "skipped" when not
SettingLogEntry(path, key, o, at) ==
    [ kind |-> IF o.kind = "json" THEN "setting" ELSE "skipped", path |-> path,
      key |-> key, o |-> FileOutcome(o.kind, FM_empty, o.value.v),
      fields |-> ContentRow(<<>>, "", "", JsonStringify(FM_empty), "", ""),
      at |-> at ]

\* the locals of one invocation
Invocation(kind, p, work, files, sfiles, updates, creates, found, log, st, before, after, doneAtStart) ==
    [ kind |-> kind, pc |-> p, work |-> work, files |-> files,
      sfiles |-> sfiles, updates |-> updates, creates |-> creates,
      found |-> found, log |-> log, status |-> st, before |-> before,
      after |-> after, doneAtStart |-> doneAtStart ]

NoInvocation ==
    Invocation("none", "idle", <<>>, <<>>, <<>>, <<>>, <<>>, {}, <<>>, 0,
               EmptyDb, EmptyDb, {})

\* front-matter whose status and access_level are no values of the enums
FM_odd == Frontmatter(<<>>, <<>>, "", "wip", "", "secret")

\* what the fetch and parse of an article can give an invocation
SyncOutcomes ==
    { FetchedNull, FileOutcome("doc", FM_full, "body2"),
      FileOutcome("doc", FM_odd, "body1") }

\* what the fetch and parse of a settings file can give an invocation
SyncSettingOutcomes ==
    { SettingOutcome("null", JsonValue("null", "")),
      SettingOutcome("json", JsonValue("object", "site1")) }

\* the push events delivered while another invocation runs
SyncCommitLists ==
    { << Commit(<<P_a>>, <<P_site>>, <<P_index>>) >>,
      << Commit(<<P_a, P_aIndex>>, <<>>, <<>>) >> }

\* the processes whose invocation has ended
Done == {q \in Procs : inv[q].pc = "done"}

\* process p begins an invocation of `kind` over the given files; the
\* processes are numbered in the order in which they begin
Begin(p, kind, first, work, files, sfiles) ==
    /\ inv[p].kind = "none"
    /\ \A q \in Procs : q < p => inv[q].kind # "none"
    /\ inv' = [inv EXCEPT ![p] =
                 Invocation(kind, first, work, files, sfiles, <<>>, <<>>, {},
                            <<>>, 0, db, db, Done)]
    /\ UNCHANGED <<db, now>>

\* an invocation ends with `st`, leaving the database d
EndWith(i, st, d) == [i EXCEPT !.pc = "done", !.status = st, !.after = d]

\* the wall clock advances
Tick ==
    /\ now < MaxClock
    /\ now' = now + 1
    /\ UNCHANGED <<db, inv, SequentialVars, calc>>

\* an evaluation of a pure function: its name, its argument, its result
Calc(fn, arg, out) == [fn |-> fn, arg |-> arg, out |-> out]

NoCalc == Calc("none", <<>>, <<>>)

----------------------------------------------------------------------------
(* scripts/recursive-sync.ts.                                              *)

\* how many runs of recursiveSync a behaviour holds
MaxRuns == 1

S_contentsDir == <<"c","o","n","t","e","n","t","s">>

S_settingsDir == <<"s","e","t","t","i","n","g","s">>

\* an item of a directory listing (GitHubFile)
Entry(name, path, type) == [name |-> name, path |-> path, type |-> type]

FileIn(dir, name) == Entry(name, dir \o <<"/">> \o name, "file")

DirIn(dir, name) == Entry(name, dir \o <<"/">> \o name, "dir")

N_a == <<"a">> \o S_mdx

N_index == S_index \o S_mdx

N_notes == <<"n",".","t","x","t">>

N_site == <<"s","i","t","e">> \o S_json

N_nav == <<"n","a","v">> \o S_json

\* a repository: the listing of each of its directories
TreeA ==
    [ d \in { S_contentsDir, S_contentsDir \o <<"/","a">>, S_settingsDir } |->
        IF d = S_contentsDir
        THEN << FileIn(d, N_a), DirIn(d, <<"a">>), FileIn(d, N_notes),
                FileIn(d, N_index) >>
        ELSE IF d = S_settingsDir
        THEN << FileIn(d, N_site), DirIn(d, <<"x">>), FileIn(d, N_nav) >>
        ELSE << FileIn(d, N_index) >> ]

TreeB ==
    [ d \in { S_contentsDir, S_contentsDir \o <<"/","b">>, S_settingsDir } |->
        IF d = S_contentsDir
        THEN << DirIn(d, <<"b">>), FileIn(d, N_a), FileIn(d, N_index) >>
        ELSE IF d = S_settingsDir
        THEN << FileIn(d, N_site), FileIn(d, N_notes) >>
        ELSE << FileIn(d, N_index) >> ]

Trees == {TreeA, TreeB}

\* what a turn of the loop over allMDXFiles can meet: fetchGitHubFile
\* throws, gray-matter throws, the upsert throws, or the file is synced
RecursiveArticleOutcomes ==
    { FileOutcome(k, FM_empty, "") : k \in {"fetchFail", "malformed", "storeFail"} }
    \cup FetchedDocs

\* what a turn of the loop over the settings files can meet
RecursiveSettingOutcomes ==
    { SettingOutcome(k, JsonValue("null", "")) : k \in {"fetchFail", "malformed"} }
    \cup {x \in SettingOutcomes : x.kind = "json"}

\* recursiveSync: the slug of an article file
RecursiveSlug(path) ==
    LET s1 == ReplaceFirst(ReplaceFirst(path, S_contents, <<>>), S_mdx, <<>>)
        s2 == IF EndsWith(s1, S_slashIndex)
              THEN ReplaceFirst(s1, S_slashIndex, <<>>) ELSE s1
    IN  IF s2 = <<>> THEN S_index ELSE s2

\* recursiveSync: the values it inserts, or sets on conflict
RecursiveContentRow(file, fm, mdxContent) ==
    ContentRow(OrElseSeq(fm.title, ReplaceFirst(file.name, S_mdx, <<>>)),
               OrElse(fm.description, ""),
               mdxContent, JsonStringify(fm), OrElse(fm.status, "published"),
               OrElse(fm.accessLevel, OrElse(fm.access_level, "public")))

\* recursiveSync: the key of a settings file
RecursiveSettingKey(file) == ReplaceFirst(file.name, S_json, <<>>)

\* insert ... onConflictDoUpdate on contents.slug
UpsertContent(tbl, slug, row) == Put(tbl, slug, row)

\* insert ... onConflictDoUpdate on settings.key
UpsertSetting(tbl, key, jsonData) == Put(tbl, key, JsonStringify(jsonData))

\* what became of one listed file: "synced", "fetchFail", "malformed" or
\* "storeFail", and the key and row it was synced under
Result(kind, key, row) == [kind |-> kind, key |-> key, row |-> row]

NoRow == ContentRow(<<>>, "", "", JsonStringify(FM_empty), "", "")

NoValue == JsonStringify(JsonValue("null", ""))

RsState(p, run, tree, todo, all, files, synced, errors, log, sfiles, slog) ==
    [ pc |-> p, run |-> run, tree |-> tree, todo |-> todo, allMDXFiles |-> all,
      files |-> files, syncedCount |-> synced, errorCount |-> errors,
      log |-> log, settingsFiles |-> sfiles, slog |-> slog ]

RsOff == RsState("off", 0, TreeA, <<>>, <<>>, <<>>, 0, 0, <<>>, <<>>, <<>>)

InitRecursive ==
    /\ secretSet = TRUE
    /\ handler = "none"
    /\ pc = "idle"
    /\ req = NoRequest
    /\ status = 0
    /\ invoked = {}
    /\ syncTriggered = FALSE
    /\ fetched = {}
    /\ writes = {}
    /\ processed = <<0, 0>>
    /\ contentFiles = <<>>
    /\ settingFiles = <<>>
    /\ contentUpdates = <<>>
    /\ newContents = <<>>
    /\ contents = EmptyTable
    /\ settings = EmptyTable
    /\ storeAtStart = [contents |-> EmptyTable, settings |-> EmptyTable]
    /\ rs = RsOff
    /\ db = EmptyDb
    /\ now = 0
    /\ inv = [p \in Procs |-> NoInvocation]
    /\ calc = NoCalc

WebhookVars ==
    <<secretSet, handler, pc, req, status, invoked, syncTriggered, fetched,
      writes, processed, contentFiles, settingFiles, contentUpdates,
      newContents>>

\* recursiveSync starts: the environment check, then getAllMDXFiles is
\* called on 'contents'
RsStart ==
    /\ rs.pc \in {"off", "done", "exit1"}
    /\ rs.run < MaxRuns
    /\ \E tree \in Trees : \E envOk \in BOOLEAN :
         rs' = IF envOk
               THEN RsState("listing", rs.run + 1, tree,
                            << Entry(S_contentsDir, S_contentsDir, "dir") >>,
                            <<>>, <<>>, 0, 0, <<>>, <<>>, <<>>)
               ELSE RsState("exit1", rs.run + 1, tree, <<>>, <<>>, <<>>, 0, 0,
                            <<>>, <<>>, <<>>)
    /\ storeAtStart' = Store
    /\ UNCHANGED <<WebhookVars, contents, settings>>
    /\ UNCHANGED <<ConcurrentVars, calc>>

\* getAllMDXFiles: the next item in depth-first order; a directory is
\* listed (fetchDirectoryContents), and a failed listing ends the run in the
\* outer catch
RsList ==
    /\ rs.pc = "listing" /\ rs.todo # <<>>
    /\ LET item == Head(rs.todo)
       IN  IF item.type = "file" /\ EndsWith(item.name, S_mdx)
           THEN rs' = [rs EXCEPT !.allMDXFiles = Append(@, item),
                                 !.todo = Tail(@)]
           ELSE IF item.type = "dir"
           THEN \E ok \in BOOLEAN :
                  rs' = IF ok /\ item.path \in DOMAIN rs.tree
                        THEN [rs EXCEPT !.todo = rs.tree[item.path] \o Tail(@)]
                        ELSE [rs EXCEPT !.pc = "exit1"]
           ELSE rs' = [rs EXCEPT !.todo = Tail(@)]
    /\ UNCHANGED <<WebhookVars, contents, settings, storeAtStart>>
    /\ UNCHANGED <<ConcurrentVars, calc>>

\* the loop over allMDXFiles begins while directories are still to be listed
RsListedEarly ==
    /\ rs.pc = "listing"
    /\ rs' = [rs EXCEPT !.pc = "articles", !.files = rs.allMDXFiles]
    /\ UNCHANGED <<WebhookVars, contents, settings, storeAtStart>>
    /\ UNCHANGED <<ConcurrentVars, calc>>

\* getAllMDXFiles has returned; the loop over allMDXFiles begins
RsListed ==
    /\ rs.pc = "listing" /\ rs.todo = <<>>
    /\ rs' = [rs EXCEPT !.pc = "articles", !.files = rs.allMDXFiles]
    /\ UNCHANGED <<WebhookVars, contents, settings, storeAtStart>>
    /\ UNCHANGED <<ConcurrentVars, calc>>

\* a catch that leaves the loop over allMDXFiles
ArticleFailedBreaks(r, kind) ==
    [r EXCEPT !.errorCount = @ + 1,
              !.log = Append(@, Result(kind, <<>>, NoRow)),
              !.files = <<>>]

\* the catch of the loop over allMDXFiles, then the next file
ArticleFailed(r, kind) ==
    [r EXCEPT !.errorCount = @ + 1,
              !.log = Append(@, Result(kind, <<>>, NoRow)),
              !.files = Tail(@)]

\* the end of the try of the loop over allMDXFiles, then the next file
ArticleSynced(r, slug, row) ==
    [r EXCEPT !.syncedCount = @ + 1,
              !.log = Append(@, Result("synced", slug, row)),
              !.files = Tail(@)]

\* recursiveSync: one turn of the loop over allMDXFiles
RsArticle ==
    /\ rs.pc = "articles" /\ rs.files # <<>>
    /\ LET file == Head(rs.files)
       IN  \E o \in RecursiveArticleOutcomes :
             IF o.kind # "doc"
             THEN /\ rs' = ArticleFailed(rs, o.kind)
                  /\ contents' = contents
             ELSE LET slug == RecursiveSlug(file.path)
                      row == RecursiveContentRow(file, o.fm, o.content)
                  IN  /\ contents' = UpsertContent(contents, slug, row)
                      /\ rs' = ArticleSynced(rs, slug, row)
    /\ UNCHANGED <<WebhookVars, settings, storeAtStart>>
    /\ UNCHANGED <<ConcurrentVars, calc>>

\* recursiveSync: the settings directory is listed; a failure is caught
\* and the settings are skipped
RsSettingsList ==
    /\ rs.pc = "articles" /\ rs.files = <<>>
    /\ \E ok \in BOOLEAN :
         rs' = [rs EXCEPT !.pc = "settings",
                          !.settingsFiles =
                              IF ok THEN rs.tree[S_settingsDir] ELSE <<>>]
    /\ UNCHANGED <<WebhookVars, contents, settings, storeAtStart>>
    /\ UNCHANGED <<ConcurrentVars, calc>>

\* recursiveSync: one turn of the loop over settingsFiles
RsSetting ==
    /\ rs.pc = "settings" /\ rs.settingsFiles # <<>>
    /\ LET file == Head(rs.settingsFiles)
           key == RecursiveSettingKey(file)
       IN  IF file.type = "file" /\ EndsWith(file.name, S_json)
           THEN \E o \in RecursiveSettingOutcomes :
                  IF o.kind # "json"
                  THEN /\ rs' = [rs EXCEPT
                                   !.slog = Append(@, Result(o.kind, key, NoValue)),
                                   !.settingsFiles = Tail(@)]
                       /\ settings' = settings
                  ELSE /\ settings' = UpsertSetting(settings, key, o.value)
                       /\ rs' = [rs EXCEPT
                                   !.slog = Append(@, Result("synced", key,
                                                   JsonStringify(o.value))),
                                   !.settingsFiles = Tail(@)]
           ELSE /\ rs' = [rs EXCEPT !.settingsFiles = Tail(@)]
                /\ settings' = settings
    /\ UNCHANGED <<WebhookVars, contents, storeAtStart>>
    /\ UNCHANGED <<ConcurrentVars, calc>>

\* recursiveSync: the final counts and the summary; a failing select ends
\* the run in the outer catch
RsSummary ==
    /\ rs.pc = "settings" /\ rs.settingsFiles = <<>>
    /\ \E ok \in BOOLEAN :
         rs' = [rs EXCEPT !.pc = IF ok THEN "done" ELSE "exit1"]
    /\ UNCHANGED <<WebhookVars, contents, settings, storeAtStart>>
    /\ UNCHANGED <<ConcurrentVars, calc>>

NextRecursive ==
    \/ RsStart
    \/ RsList
    \/ RsListed
    \/ RsArticle
    \/ RsSettingsList
    \/ RsSetting
    \/ RsSummary

\* runs of scripts/recursive-sync.ts
SpecRecursive == InitRecursive /\ [][NextRecursive]_vars

----------------------------------------------------------------------------
(* Webhook deliveries.                                                     *)

InitWebhook ==
    /\ secretSet \in BOOLEAN
    /\ handler = "none"
    /\ pc = "idle"
    /\ req = NoRequest
    /\ status = 0
    /\ invoked = {}
    /\ syncTriggered = FALSE
    /\ fetched = {}
    /\ writes = {}
    /\ processed = <<0, 0>>
    /\ contentFiles = <<>>
    /\ settingFiles = <<>>
    /\ contentUpdates = <<>>
    /\ newContents = <<>>
    /\ contents = EmptyTable
    /\ settings = EmptyTable
    /\ storeAtStart = [contents |-> EmptyTable, settings |-> EmptyTable]
    /\ rs = RsOff
    /\ db = EmptyDb
    /\ now = 0
    /\ inv = [p \in Procs |-> NoInvocation]
    /\ calc = NoCalc

\* a delivery arrives at one of the two handlers
Receive(h) ==
    /\ pc = "idle"
    /\ \E e \in Events : \E b \in BodiesFor(e) :
       \E s \in SignaturesFor(b) :
       \E s1 \in (IF h = "route" THEN {NoHeader} ELSE LegacySignaturesFor(b)) :
       \E t \in (IF h = "route" THEN BOOLEAN ELSE {TRUE}) :
       \E f \in (IF e = "pull_request" THEN PullRequestFiles ELSE {{}}) :
           req' = Request(t, e, s, s1, b, f)
    /\ handler' = h
    /\ pc' = "start"
    /\ storeAtStart' = Store
    /\ UNCHANGED <<secretSet, status, invoked, syncTriggered, fetched, writes,
                   processed, contentFiles, settingFiles, contentUpdates,
                   newContents, contents, settings, rs>>
    /\ UNCHANGED <<ConcurrentVars, calc>>

\* the handler returns `code`
Reply(code) ==
    /\ status' = code
    /\ pc' = "done"

\* route.ts POST, up to reading the body: tenant id, event header, secret
RouteValidate ==
    /\ handler = "route" /\ pc = "start"
    /\ IF ~req.tenantOk THEN Reply(400)
       ELSE IF req.event = "" THEN Reply(400)
       ELSE IF ~secretSet THEN Reply(500)
       ELSE pc' = "verify" /\ status' = status
    /\ UNCHANGED <<secretSet, handler, req, invoked, syncTriggered, fetched,
                   writes, processed, contentFiles, settingFiles,
                   contentUpdates, newContents, contents, settings,
                   storeAtStart, rs>>
    /\ UNCHANGED <<ConcurrentVars, calc>>

\* route.ts POST: githubSignature && !verifyGitHubSignature(...); a throw of
\* timingSafeEqual lands in the outer catch
RouteVerify ==
    /\ handler = "route" /\ pc = "verify"
    /\ LET v == IF Falsy(req.sig) THEN "skipped"
                ELSE RouteVerifyGitHubSignature(req.body, req.sig, secretSet)
       IN  IF v = "false" THEN Reply(401)
           ELSE IF v = "throw" THEN Reply(500)
           ELSE pc' = "parse" /\ status' = status
    /\ UNCHANGED <<secretSet, handler, req, invoked, syncTriggered, fetched,
                   writes, processed, contentFiles, settingFiles,
                   contentUpdates, newContents, contents, settings,
                   storeAtStart, rs>>
    /\ UNCHANGED <<ConcurrentVars, calc>>

\* route.ts POST: JSON.parse, the switch on the event, the success response
RouteDispatch ==
    /\ handler = "route" /\ pc = "parse"
    /\ IF ~req.body.wellFormed
       THEN Reply(400) /\ UNCHANGED <<invoked, syncTriggered>>
       ELSE /\ Reply(200)
            /\ invoked' =
                 IF req.event = "push" THEN {"processPushEvent"}
                 ELSE IF req.event = "pull_request" THEN {"processPullRequestEvent"}
                 ELSE {}
            /\ syncTriggered' =
                 IF req.event = "push" THEN RoutePushSyncs(req.body)
                 ELSE IF req.event = "pull_request" THEN RoutePullRequestSyncs(req.body)
                 ELSE FALSE
    /\ UNCHANGED <<secretSet, handler, req, fetched, writes, processed,
                   contentFiles, settingFiles, contentUpdates, newContents,
                   contents, settings, storeAtStart, rs>>
    /\ UNCHANGED <<ConcurrentVars, calc>>

\* template POST: the secret, then the signature
TemplateVerify ==
    /\ handler = "template" /\ pc = "start"
    /\ IF ~secretSet THEN Reply(500)
       ELSE IF ~TemplateVerifyGitHubSignature(req.body, TemplateSignature(req),
                                              secretSet)
       THEN Reply(401)
       ELSE pc' = "parse" /\ status' = status
    /\ UNCHANGED <<secretSet, handler, req, invoked, syncTriggered, fetched,
                   writes, processed, contentFiles, settingFiles,
                   contentUpdates, newContents, contents, settings,
                   storeAtStart, rs>>
    /\ UNCHANGED <<ConcurrentVars, calc>>

\* template POST: JSON.parse, shouldProcessEvent, the commit ref, the lists
TemplateParse ==
    /\ handler = "template" /\ pc = "parse"
    /\ IF ~req.body.wellFormed
       THEN Reply(400)
            /\ UNCHANGED <<syncTriggered, processed, contentFiles, settingFiles>>
       ELSE IF ~ShouldProcessEvent(req.body, req.event)
       THEN Reply(200)
            /\ UNCHANGED <<syncTriggered, processed, contentFiles, settingFiles>>
       ELSE IF CommitRef(req.body, req.event) = ""
       THEN Reply(400)
            /\ UNCHANGED <<syncTriggered, processed, contentFiles, settingFiles>>
       ELSE LET changedFiles == ExtractChangedFiles(req.body, req.event)
            IN  /\ contentFiles' = FilterContentFiles(changedFiles)
                /\ settingFiles' = FilterSettingFiles(changedFiles)
                /\ processed' = << Len(FilterContentFiles(changedFiles)),
                                   Len(FilterSettingFiles(changedFiles)) >>
                /\ syncTriggered' = TRUE
                /\ pc' = "content"
                /\ status' = status
    /\ UNCHANGED <<secretSet, handler, req, invoked, fetched, writes,
                   contentUpdates, newContents, contents, settings,
                   storeAtStart, rs>>
    /\ UNCHANGED <<ConcurrentVars, calc>>

\* processContentFiles: one turn of the loop over contentFiles
TemplateContentFile ==
    /\ handler = "template" /\ pc = "content" /\ contentFiles # <<>>
    /\ LET filePath == Head(contentFiles)
       IN  /\ fetched' = fetched \cup {filePath}
           /\ contentFiles' = Tail(contentFiles)
           /\ \E o \in ContentOutcomes :
                IF o.kind # "doc"
                THEN UNCHANGED <<contentUpdates, newContents>>
                ELSE LET slug == TemplateSlug(o.fm, filePath)
                         item == [ slug |-> slug,
                                   data |-> TemplateContentData(o.fm, o.content) ]
                     IN  IF HasContent(contents, slug)
                         THEN /\ contentUpdates' = Append(contentUpdates, item)
                              /\ newContents' = newContents
                         ELSE /\ newContents' = Append(newContents, item)
                              /\ contentUpdates' = contentUpdates
    /\ UNCHANGED <<secretSet, handler, pc, req, status, invoked, syncTriggered,
                   writes, processed, settingFiles, contents, settings,
                   storeAtStart, rs>>
    /\ UNCHANGED <<ConcurrentVars, calc>>

\* processContentFiles: batchUpdateContents after the loop
TemplateBatchUpdate ==
    /\ handler = "template" /\ pc = "content" /\ contentFiles = <<>>
    /\ IF contentUpdates # <<>>
       THEN /\ writes' = writes \cup {"batchUpdateContents"}
            /\ contents' = BatchUpdateContents(contents, contentUpdates).tbl
       ELSE UNCHANGED <<writes, contents>>
    /\ pc' = "create"
    /\ UNCHANGED <<secretSet, handler, req, status, invoked, syncTriggered,
                   fetched, processed, contentFiles, settingFiles,
                   contentUpdates, newContents, settings, storeAtStart, rs>>
    /\ UNCHANGED <<ConcurrentVars, calc>>

\* processContentFiles: batchCreateContents; its DatabaseError leaves
\* processContentFiles and both withTransaction calls and POST answers 500
TemplateBatchCreate ==
    /\ handler = "template" /\ pc = "create"
    /\ IF newContents # <<>>
       THEN LET r == BatchCreateContents(contents, newContents)
            IN  /\ writes' = writes \cup {"batchCreateContents"}
                /\ contents' = r.tbl
                /\ IF r.ok THEN pc' = "settings" /\ status' = status
                   ELSE Reply(500)
       ELSE /\ pc' = "settings"
            /\ UNCHANGED <<writes, contents, status>>
    /\ UNCHANGED <<secretSet, handler, req, invoked, syncTriggered, fetched,
                   processed, contentFiles, settingFiles, contentUpdates,
                   newContents, settings, storeAtStart, rs>>
    /\ UNCHANGED <<ConcurrentVars, calc>>

\* processSettingsFiles: one turn of the loop over settingFiles
TemplateSettingFile ==
    /\ handler = "template" /\ pc = "settings" /\ settingFiles # <<>>
    /\ LET filePath == Head(settingFiles)
       IN  /\ fetched' = fetched \cup {filePath}
           /\ settingFiles' = Tail(settingFiles)
           /\ \E o \in SettingOutcomes :
                IF o.kind # "json"
                THEN UNCHANGED <<writes, settings>>
                ELSE /\ writes' = writes \cup {"updateSettings"}
                     /\ settings' = UpdateSettings(settings,
                                        TemplateSettingKey(filePath), o.value)
    /\ UNCHANGED <<secretSet, handler, pc, req, status, invoked, syncTriggered,
                   processed, contentFiles, contentUpdates, newContents,
                   contents, storeAtStart, rs>>
    /\ UNCHANGED <<ConcurrentVars, calc>>

\* template POST: the success response with the counts
TemplateFinish ==
    /\ handler = "template" /\ pc = "settings" /\ settingFiles = <<>>
    /\ Reply(200)
    /\ UNCHANGED <<secretSet, handler, req, invoked, syncTriggered, fetched,
                   writes, processed, contentFiles, settingFiles,
                   contentUpdates, newContents, contents, settings,
                   storeAtStart, rs>>
    /\ UNCHANGED <<ConcurrentVars, calc>>

\* the response is sent; the handler's locals are gone
Respond ==
    /\ pc = "done"
    /\ handler' = "none"
    /\ pc' = "idle"
    /\ req' = NoRequest
    /\ status' = 0
    /\ invoked' = {}
    /\ syncTriggered' = FALSE
    /\ fetched' = {}
    /\ writes' = {}
    /\ processed' = <<0, 0>>
    /\ contentFiles' = <<>>
    /\ settingFiles' = <<>>
    /\ contentUpdates' = <<>>
    /\ newContents' = <<>>
    /\ storeAtStart' = Store
    /\ UNCHANGED <<secretSet, contents, settings, rs>>
    /\ UNCHANGED <<ConcurrentVars, calc>>

NextRoute ==
    \/ Receive("route")
    \/ RouteValidate
    \/ RouteVerify
    \/ RouteDispatch
    \/ Respond

NextTemplate ==
    \/ Receive("template")
    \/ TemplateVerify
    \/ TemplateParse
    \/ TemplateContentFile
    \/ TemplateBatchUpdate
    \/ TemplateBatchCreate
    \/ TemplateSettingFile
    \/ TemplateFinish
    \/ Respond

NextWebhook ==
    \/ Receive("route")
    \/ Receive("template")
    \/ RouteValidate
    \/ RouteVerify
    \/ RouteDispatch
    \/ TemplateVerify
    \/ TemplateParse
    \/ TemplateContentFile
    \/ TemplateBatchUpdate
    \/ TemplateBatchCreate
    \/ TemplateSettingFile
    \/ TemplateFinish
    \/ Respond

\* deliveries to either handler
Spec == InitWebhook /\ [][NextWebhook]_vars

\* deliveries to route.ts
SpecRoute == InitWebhook /\ [][NextRoute]_vars

\* deliveries to the template handler
SpecTemplate == InitWebhook /\ [][NextTemplate]_vars

----------------------------------------------------------------------------
(* Concurrent invocations: recursiveSync.                                  *)

\* the listings of contents/ a bulk sync finds while another invocation runs
SyncListings ==
    { << FileIn(S_contentsDir, <<"a">> \o S_mdx),
         FileIn(S_contentsDir \o <<"/","a">>, S_index \o S_mdx) >> }

\* the listing of settings/ a bulk sync finds
SyncSettingsListing == << FileIn(S_settingsDir, <<"s","i","t","e">> \o S_json) >>

\* recursiveSync begins: the articles getAllMDXFiles listed, and the
\* settings directory
BeginRecursive(p) ==
    /\ \E files \in SyncListings :
         Begin(p, "recursiveSync", "content", <<>>, files, SyncSettingsListing)
    /\ UNCHANGED <<SequentialVars, calc>>

\* recursiveSync: one turn of the loop over allMDXFiles, with its upsert
ConcRecursiveArticle(p) ==
    /\ inv[p].kind = "recursiveSync" /\ inv[p].pc = "content"
    /\ inv[p].files # <<>>
    /\ LET file == Head(inv[p].files)
           slug == RecursiveSlug(file.path)
       IN  \E o \in SyncOutcomes :
             IF o.kind # "doc"
             THEN /\ inv' = [inv EXCEPT
                      ![p].files = Tail(@),
                      ![p].log = Append(@, LogEntry("skipped", file.path, slug, o,
                                                     NoRow, now))]
                  /\ db' = db
             ELSE /\ db' = UpsertContentRow(db, slug,
                             RecursiveContentRow(file, o.fm, o.content), now)
                  /\ inv' = [inv EXCEPT
                      ![p].files = Tail(@),
                      ![p].log = Append(@, LogEntry("synced", file.path, slug, o,
                         RecursiveContentRow(file, o.fm, o.content), now))]
    /\ UNCHANGED <<SequentialVars, now, calc>>

\* recursiveSync: one turn of the loop over the settings files, with its
\* upsert
ConcRecursiveSetting(p) ==
    /\ inv[p].kind = "recursiveSync" /\ inv[p].pc = "content"
    /\ inv[p].files = <<>> /\ inv[p].sfiles # <<>>
    /\ LET file == Head(inv[p].sfiles)
           key == RecursiveSettingKey(file)
       IN  \E o \in SyncSettingOutcomes :
             /\ db' = IF o.kind # "json" THEN db
                      ELSE UpsertSettingRow(db, key, JsonStringify(o.value),
                                            SqlTimestamp(now), IsoTimestamp(now))
             /\ inv' = [inv EXCEPT
                   ![p].sfiles = Tail(@),
                   ![p].log = Append(@, SettingLogEntry(file.path, key, o, now))]
    /\ UNCHANGED <<SequentialVars, now, calc>>

\* recursiveSync: the summary
ConcRecursiveEnd(p) ==
    /\ inv[p].kind = "recursiveSync" /\ inv[p].pc = "content"
    /\ inv[p].files = <<>> /\ inv[p].sfiles = <<>>
    /\ inv' = [inv EXCEPT ![p] = EndWith(@, 0, db)]
    /\ UNCHANGED <<SequentialVars, db, now, calc>>

----------------------------------------------------------------------------
(* Concurrent invocations: the template handler, from the point where the  *)
(* signature and the event have been accepted.                             *)

\* POST: a signed push to the default branch; its changed files are split
BeginWebhook(p) ==
    /\ \E c \in SyncCommitLists :
         LET changedFiles == ExtractChangedFiles([commits |-> c], "push")
         IN  Begin(p, "webhook", "content", c, FilterContentFiles(changedFiles),
                   FilterSettingFiles(changedFiles))
    /\ UNCHANGED <<SequentialVars, calc>>

\* processContentFiles: one turn of the loop: the fetch, the slug, the
\* existence check, and the push to contentUpdates or newContents
ConcWebhookContentFile(p) ==
    /\ inv[p].kind = "webhook" /\ inv[p].pc = "content"
    /\ inv[p].files # <<>>
    /\ LET filePath == Head(inv[p].files)
       IN  \E o \in SyncOutcomes :
             IF o.kind # "doc"
             THEN inv' = [inv EXCEPT
                     ![p].files = Tail(@),
                     ![p].log = Append(@, LogEntry("skipped", filePath, <<>>, o,
                                                    NoRow, now))]
             ELSE LET slug == TemplateSlug(o.fm, filePath)
                      item == [ slug |-> slug,
                                data |-> TemplateContentData(o.fm, o.content) ]
                  IN  IF FirstBySlug(db, slug) # {}
                      THEN inv' = [inv EXCEPT
                             ![p].files = Tail(@),
                             ![p].updates = Append(@, item),
                             ![p].log = Append(@, LogEntry("update", filePath,
                                                  slug, o, item.data, now))]
                      ELSE inv' = [inv EXCEPT
                             ![p].files = Tail(@),
                             ![p].creates = Append(@, item),
                             ![p].log = Append(@, LogEntry("create", filePath,
                                                  slug, o, item.data, now))]
    /\ UNCHANGED <<SequentialVars, db, now, calc>>

\* processContentFiles: batchUpdateContents after the loop
ConcWebhookBatchUpdate(p) ==
    /\ inv[p].kind = "webhook" /\ inv[p].pc = "content"
    /\ inv[p].files = <<>>
    /\ db' = DbApplyUpdates(db, inv[p].updates, now)
    /\ inv' = [inv EXCEPT ![p].pc = "create"]
    /\ UNCHANGED <<SequentialVars, now, calc>>

\* processContentFiles: batchCreateContents; its DatabaseError ends POST
\* with 500
ConcWebhookBatchCreate(p) ==
    /\ inv[p].kind = "webhook" /\ inv[p].pc = "create"
    /\ LET r == DbBatchCreateContents(db, inv[p].creates, now)
       IN  /\ db' = r.db
           /\ inv' = [inv EXCEPT ![p] = IF r.ok THEN [@ EXCEPT !.pc = "settings"]
                                        ELSE EndWith(@, 500, r.db)]
    /\ UNCHANGED <<SequentialVars, now, calc>>

\* processSettingsFiles: one turn of the loop, with updateSettings
ConcWebhookSettingFile(p) ==
    /\ inv[p].kind = "webhook" /\ inv[p].pc = "settings"
    /\ inv[p].sfiles # <<>>
    /\ LET filePath == Head(inv[p].sfiles)
       IN  \E o \in SyncSettingOutcomes :
             /\ db' = IF o.kind # "json" THEN db
                      ELSE UpsertSettingRow(db, TemplateSettingKey(filePath),
                                            SettingValueString(o.value),
                                            DateTimestamp(now), DateTimestamp(now))
             /\ inv' = [inv EXCEPT
                   ![p].sfiles = Tail(@),
                   ![p].log = Append(@, SettingLogEntry(filePath,
                                          TemplateSettingKey(filePath), o, now))]
    /\ UNCHANGED <<SequentialVars, now, calc>>

\* POST: the success response
ConcWebhookFinish(p) ==
    /\ inv[p].kind = "webhook" /\ inv[p].pc = "settings"
    /\ inv[p].sfiles = <<>>
    /\ inv' = [inv EXCEPT ![p] = EndWith(@, 200, db)]
    /\ UNCHANGED <<SequentialVars, db, now, calc>>

----------------------------------------------------------------------------
(* Concurrent invocations: GitHubSyncService.syncMDXFilesToDatabase        *)
(* (scripts/check-database.ts) and direct calls of createContent and       *)
(* createSetting (TEMPLATE_db_queries.ts).                                 *)

\* String.prototype.toUpperCase on one character
ToUpperCase(c) ==
    CASE c = "a" -> "A" [] c = "b" -> "B" [] c = "i" -> "I" [] OTHER -> c

\* slug.charAt(0).toUpperCase() + slug.slice(1)
Capitalize(str) ==
    IF str = <<>> THEN <<>> ELSE <<ToUpperCase(str[1])>> \o Tail(str)

\* a column left NULL
NullFrontmatter == [enc |-> "null", val |-> FM_empty]

\* syncMDXFilesToDatabase: the slug of a file
ServiceSlug(path) == ReplaceFirst(ReplaceFirst(path, S_contents, <<>>), S_mdx, <<>>)

\* syncMDXFilesToDatabase: the row it creates
ServiceContentRow(slug, content) ==
    ContentRow(Capitalize(slug), "<null>", content, NullFrontmatter,
               "published", "public")

\* what getMDXFiles returned: the top-level articles with their content
ServiceFiles ==
    { << [path |-> P_a, content |-> c] >> : c \in {"body1", "body2"} }

\* createContent: the insert; a refused row is the Error it throws
CreateContent(d, slug, fields, t) ==
    InsertContent(d, slug, fields, SqlTimestamp(t), SqlTimestamp(t))

\* createSetting: the insert; a refused row is the Error it throws
CreateSetting(d, key, value, t) == InsertSetting(d, key, value, SqlTimestamp(t))

\* updateContent(id, {content_raw, updated_at})
UpdateContentBody(d, ids, content, t) ==
    Database({ IF r.id \in ids
               THEN ContentRecord(r.id, r.slug,
                                  [r.fields EXCEPT !.content_raw = content],
                                  r.created_at, IsoTimestamp(t))
               ELSE r : r \in d.contents },
             d.settings, d.seq)

\* syncMDXFilesToDatabase begins with the files getMDXFiles returned
BeginService(p) ==
    /\ \E files \in ServiceFiles :
         Begin(p, "syncMDXFiles", "content", <<>>, files, <<>>)
    /\ UNCHANGED <<SequentialVars, calc>>

\* syncMDXFilesToDatabase: getContentBySlug for the next file
ConcServiceCheck(p) ==
    /\ inv[p].kind = "syncMDXFiles" /\ inv[p].pc = "content"
    /\ inv[p].files # <<>>
    /\ inv' = [inv EXCEPT
          ![p].pc = "write",
          ![p].found = {r.id : r \in FirstBySlug(db, ServiceSlug(Head(inv[p].files).path))}]
    /\ UNCHANGED <<SequentialVars, db, now, calc>>

\* syncMDXFilesToDatabase: updateContent of the row found, or createContent;
\* an error is caught and counted
ConcServiceWrite(p) ==
    /\ inv[p].kind = "syncMDXFiles" /\ inv[p].pc = "write"
    /\ LET file == Head(inv[p].files)
           slug == ServiceSlug(file.path)
           o == FileOutcome("doc", FM_empty, file.content)
           r == IF inv[p].found # {}
                THEN Outcome(TRUE, UpdateContentBody(db, inv[p].found,
                                                     file.content, now))
                ELSE CreateContent(db, slug,
                                   ServiceContentRow(slug, file.content), now)
       IN  /\ db' = r.db
           /\ inv' = [inv EXCEPT
                 ![p].pc = "content",
                 ![p].files = Tail(@),
                 ![p].found = {},
                 ![p].log = Append(@,
                    LogEntry(IF ~r.ok THEN "failed"
                             ELSE IF inv[p].found # {} THEN "update" ELSE "create",
                             file.path, slug, o,
                             ServiceContentRow(slug, file.content), now))]
    /\ UNCHANGED <<SequentialVars, now, calc>>

\* syncMDXFilesToDatabase returns its counts
ConcServiceEnd(p) ==
    /\ inv[p].kind = "syncMDXFiles" /\ inv[p].pc = "content"
    /\ inv[p].files = <<>>
    /\ inv' = [inv EXCEPT ![p] = EndWith(@, 0, db)]
    /\ UNCHANGED <<SequentialVars, db, now, calc>>

\* a caller creates an article with createContent
CallCreateContent(p) ==
    /\ inv[p].kind = "none"
    /\ \A q \in Procs : q < p => inv[q].kind # "none"
    /\ \E slug \in {<<"a">>, S_index} :
         LET o == FileOutcome("doc", FM_empty, "body1")
             r == CreateContent(db, slug, ServiceContentRow(slug, "body1"), now)
         IN  /\ db' = r.db
             /\ inv' = [inv EXCEPT ![p] =
                   Invocation("createContent", "done", <<>>, <<>>, <<>>, <<>>,
                      <<>>, {},
                      << LogEntry(IF r.ok THEN "create" ELSE "failed", <<>>,
                                  slug, o, ServiceContentRow(slug, "body1"),
                                  now) >>,
                      0, db, r.db, Done)]
    /\ UNCHANGED <<SequentialVars, now, calc>>

\* a caller creates a setting with createSetting
CallCreateSetting(p) ==
    /\ inv[p].kind = "none"
    /\ \A q \in Procs : q < p => inv[q].kind # "none"
    /\ LET key == <<"s","i","t","e">>
           o == FileOutcome("doc", FM_empty, "")
           r == CreateSetting(db, key, JsonStringify(JsonValue("object", "site1")),
                              now)
       IN  /\ db' = r.db
           /\ inv' = [inv EXCEPT ![p] =
                 Invocation("createSetting", "done", <<>>, <<>>, <<>>, <<>>,
                    <<>>, {},
                    << LogEntry(IF r.ok THEN "create" ELSE "failed", <<>>,
                                key, o, NoRow, now) >>,
                    0, db, r.db, Done)]
    /\ UNCHANGED <<SequentialVars, now, calc>>

NextConcurrent ==
    \/ \E p \in Procs : BeginRecursive(p)
    \/ \E p \in Procs : ConcRecursiveArticle(p)
    \/ \E p \in Procs : ConcRecursiveSetting(p)
    \/ \E p \in Procs : ConcRecursiveEnd(p)
    \/ \E p \in Procs : BeginWebhook(p)
    \/ \E p \in Procs : ConcWebhookContentFile(p)
    \/ \E p \in Procs : ConcWebhookBatchUpdate(p)
    \/ \E p \in Procs : ConcWebhookBatchCreate(p)
    \/ \E p \in Procs : ConcWebhookSettingFile(p)
    \/ \E p \in Procs : ConcWebhookFinish(p)
    \/ \E p \in Procs : BeginService(p)
    \/ \E p \in Procs : ConcServiceCheck(p)
    \/ \E p \in Procs : ConcServiceWrite(p)
    \/ \E p \in Procs : ConcServiceEnd(p)
    \/ \E p \in Procs : CallCreateContent(p)
    \/ \E p \in Procs : CallCreateSetting(p)

\* the databases the invocations meet: an empty one, and one in which an
\* earlier bulk sync has stored contents/a.mdx
InitialDbs ==
    { EmptyDb,
      UpsertContentRow(EmptyDb, <<"a">>,
          RecursiveContentRow(FileIn(S_contentsDir, <<"a">> \o S_mdx), FM_empty,
                              "body0"), 0) }

InitConcurrent ==
    /\ secretSet = TRUE
    /\ handler = "none"
    /\ pc = "idle"
    /\ req = NoRequest
    /\ status = 0
    /\ invoked = {}
    /\ syncTriggered = FALSE
    /\ fetched = {}
    /\ writes = {}
    /\ processed = <<0, 0>>
    /\ contentFiles = <<>>
    /\ settingFiles = <<>>
    /\ contentUpdates = <<>>
    /\ newContents = <<>>
    /\ contents = EmptyTable
    /\ settings = EmptyTable
    /\ storeAtStart = [contents |-> EmptyTable, settings |-> EmptyTable]
    /\ rs = RsOff
    /\ db \in InitialDbs
    /\ now = 0
    /\ inv = [p \in Procs |-> NoInvocation]
    /\ calc = NoCalc

\* sync invocations and store calls running at the same time
SpecConcurrent == InitConcurrent /\ [][NextConcurrent]_vars

NextUpsert ==
    \/ Tick
    \/ \E p \in Procs : BeginRecursive(p)
    \/ \E p \in Procs : ConcRecursiveArticle(p)
    \/ \E p \in Procs : ConcRecursiveSetting(p)
    \/ \E p \in Procs : ConcRecursiveEnd(p)

\* recursiveSync invocations while the wall clock runs
SpecUpsert == InitRecursive /\ [][NextUpsert]_vars

----------------------------------------------------------------------------
(* Slug derivation on its own.                                             *)

\* how many segments an article path has below contents/
MaxDepth == 3

\* the names of directories and files (without the extension): plain names,
\* index, names that begin like index, and a name that holds '.mdx'
Segments ==
    { <<"a">>, <<"b">>, S_index, S_index \o <<"e","s">>, <<"b">> \o S_mdx }

\* the segment sequences of 1..n segments
RECURSIVE SegmentPaths(_)
SegmentPaths(n) ==
    IF n = 0 THEN {}
    ELSE {<<x>> : x \in Segments}
         \cup {Append(q, x) : q \in SegmentPaths(n - 1), x \in Segments}

\* Array.prototype.join('/')
RECURSIVE Join(_)
Join(segs) ==
    IF Len(segs) = 1 THEN segs[1]
    ELSE segs[1] \o <<"/">> \o Join(Tail(segs))

\* the article paths below contents/
ArticlePaths == {S_contents \o Join(q) \o S_mdx : q \in SegmentPaths(MaxDepth)}

\* the slug recursiveSync derives for a path is evaluated
DeriveSlug ==
    /\ \E path \in ArticlePaths :
         calc' = Calc("recursiveSlug", path, RecursiveSlug(path))
    /\ UNCHANGED <<SequentialVars, ConcurrentVars>>

NextSlug == DeriveSlug

\* evaluations of the slug derivation
SpecSlug == InitRecursive /\ [][NextSlug]_vars

----------------------------------------------------------------------------
(* The query functions of TEMPLATE_db_queries.ts called one after another  *)
(* by two clients: process 1 works on contents, process 2 on settings.     *)
(* Each client holds the records its creating and updating calls returned. *)

MaxRows == 3

\* what a call gave back: the records returned (none is null), or the Error
\* it threw
Returned(rows, threw) == [rows |-> rows, threw |-> threw]

\* a getContentBySlug that throws when it finds no row
GetContentBySlugStrict(d, slug) ==
    Returned(FirstBySlug(d, slug), FirstBySlug(d, slug) = {})

\* getContentBySlug: select ... where slug = ? limit 1, result[0] || null
GetContentBySlug(d, slug) == Returned(FirstBySlug(d, slug), FALSE)

\* getSetting: select ... where key = ? limit 1, result[0] || null
GetSetting(d, key) ==
    LET hit == SelectByKey(d, key)
    IN  Returned(IF hit = {} THEN {}
                 ELSE {CHOOSE r \in hit : \A q \in hit : r.id <= q.id}, FALSE)

\* deleteContent: delete from contents where id = ?
DeleteContent(d, id) ==
    Database({r \in d.contents : r.id # id}, d.settings, d.seq)

\* an updateSetting that inserts the row it does not find
UpdateSettingUpserting(d, key, value, t) ==
    IF SelectByKey(d, key) = {}
    THEN InsertSetting(d, key, value, DateTimestamp(t)).db
    ELSE UpdateSettingRows(d, key, value, DateTimestamp(t))

\* updateSetting: update settings set value, updatedAt where key = ?
UpdateSetting(d, key, value, t) ==
    UpdateSettingRows(d, key, value, DateTimestamp(t))

\* the slugs, titles, keys and setting texts the clients pass
ClientSlugs == {<<"a">>, S_index}

ClientTitles == {<<"T">>, <<"U">>}

ClientKeys == {<<"s","i","t","e">>, <<"n","a","v">>}

ClientValues ==
    { [enc |-> "raw", val |-> JsonValue("string", v)] : v \in {"v1", "v2"} }

\* the record the client passes to createContent
ClientContentRow(title) ==
    ContentRow(title, "<null>", "body1", NullFrontmatter, "published", "public")

\* a client between two calls: the records it holds and, for the settings
\* client, the database before its last call
Client(held, before) ==
    Invocation("client", "calls", <<>>, <<>>, <<>>, <<>>, <<>>, held, <<>>, 0,
               before, before, {})

\* the client keeps r in place of what it held under r's slug or key
Hold(held, old, rows) == (held \ old) \cup rows

\* createContent(content)
CrudCreateContent ==
    /\ db.seq < MaxRows
    /\ \E slug \in ClientSlugs : \E title \in ClientTitles :
         LET r == CreateContent(db, slug, ClientContentRow(title), now)
             rows == IF r.ok THEN r.db.contents \ db.contents ELSE {}
         IN  /\ db' = r.db
             /\ calc' = Calc("createContent", slug, Returned(rows, ~r.ok))
             /\ inv' = [inv EXCEPT ![1] = Client(inv[1].found \cup rows, EmptyDb)]
    /\ UNCHANGED <<SequentialVars, now>>

\* getContentBySlug(slug)
CrudGetContentBySlug ==
    /\ \E slug \in ClientSlugs :
         calc' = Calc("getContentBySlug", slug, GetContentBySlug(db, slug))
    /\ inv' = inv
    /\ UNCHANGED <<SequentialVars, db, now>>

\* updateContent(id, {content_raw})
CrudUpdateContent ==
    /\ \E id \in 1..MaxRows :
         /\ db' = UpdateContentBody(db, {id}, "body2", now)
         /\ calc' = Calc("updateContent", id,
                         Returned({r \in db'.contents : r.id = id}, FALSE))
    /\ inv' = inv
    /\ UNCHANGED <<SequentialVars, now>>

\* deleteContent(id)
CrudDeleteContent ==
    /\ \E id \in 1..MaxRows :
         /\ db' = DeleteContent(db, id)
         /\ calc' = Calc("deleteContent", id, Returned({}, FALSE))
    /\ inv' = inv
    /\ UNCHANGED <<SequentialVars, now>>

\* createSetting(setting)
CrudCreateSetting ==
    /\ db.seq < MaxRows
    /\ \E key \in ClientKeys : \E value \in ClientValues :
         LET r == CreateSetting(db, key, value, now)
             rows == IF r.ok THEN r.db.settings \ db.settings ELSE {}
         IN  /\ db' = r.db
             /\ calc' = Calc("createSetting", [key |-> key, value |-> value],
                             Returned(rows, ~r.ok))
             /\ inv' = [inv EXCEPT ![2] =
                          Client(Hold(inv[2].found, {}, rows), db)]
    /\ UNCHANGED <<SequentialVars, now>>

\* getSetting(key)
CrudGetSetting ==
    /\ \E key \in ClientKeys :
         calc' = Calc("getSetting", [key |-> key, value |-> NoValue],
                      GetSetting(db, key))
    /\ inv' = [inv EXCEPT ![2] = Client(inv[2].found, db)]
    /\ UNCHANGED <<SequentialVars, db, now>>

\* updateSetting(key, value)
CrudUpdateSetting ==
    /\ \E key \in ClientKeys : \E value \in ClientValues :
         LET d == UpdateSetting(db, key, value, now)
             rows == SelectByKey(d, key)
         IN  /\ db' = d
             /\ calc' = Calc("updateSetting", [key |-> key, value |-> value],
                             Returned(rows, FALSE))
             /\ inv' = [inv EXCEPT ![2] =
                          Client(Hold(inv[2].found,
                                      IF rows = {} THEN {}
                                      ELSE {r \in inv[2].found : r.key = key},
                                      rows), db)]
    /\ UNCHANGED <<SequentialVars, now>>

NextContentCrud ==
    \/ CrudCreateContent
    \/ CrudGetContentBySlug
    \/ CrudUpdateContent
    \/ CrudDeleteContent

NextSettingCrud ==
    \/ CrudCreateSetting
    \/ CrudGetSetting
    \/ CrudUpdateSetting

InitCrud ==
    /\ secretSet = TRUE
    /\ handler = "none"
    /\ pc = "idle"
    /\ req = NoRequest
    /\ status = 0
    /\ invoked = {}
    /\ syncTriggered = FALSE
    /\ fetched = {}
    /\ writes = {}
    /\ processed = <<0, 0>>
    /\ contentFiles = <<>>
    /\ settingFiles = <<>>
    /\ contentUpdates = <<>>
    /\ newContents = <<>>
    /\ contents = EmptyTable
    /\ settings = EmptyTable
    /\ storeAtStart = [contents |-> EmptyTable, settings |-> EmptyTable]
    /\ rs = RsOff
    /\ db = EmptyDb
    /\ now = 0
    /\ inv = [p \in Procs |-> Client({}, EmptyDb)]
    /\ calc = NoCalc

\* the query functions of contents called one after another
SpecContentCrud == InitCrud /\ [][NextContentCrud]_vars

\* the query functions of settings called one after another
SpecSettingCrud == InitCrud /\ [][NextSettingCrud]_vars

----------------------------------------------------------------------------
(* The candidate list of a push event on its own.                          *)

\* how many commits a push carries
MaxCommits == 2

\* paths that are no candidates: an article's directory with another
\* extension, an article's extension elsewhere, and the same for settings
P_aJson == S_contents \o <<"a">> \o S_json

P_docs == <<"d","o","c","s","/","a">> \o S_mdx

P_siteMdx == S_settings \o <<"s","i","t","e">> \o S_mdx

\* what added, modified or removed of a commit can list
CandidateFileLists ==
    { <<>>, <<P_a, P_site, P_docs>>, <<P_aJson, P_a, P_siteMdx>> }

CandidateCommits ==
    { Commit(a, m, r) : a \in CandidateFileLists, m \in CandidateFileLists,
                        r \in CandidateFileLists }

\* the commit lists of up to n commits
RECURSIVE CommitSeqs(_)
CommitSeqs(n) ==
    IF n = 0 THEN {<<>>}
    ELSE CommitSeqs(n - 1)
         \cup {Append(q, c) : q \in CommitSeqs(n - 1), c \in CandidateCommits}

\* POST: extractChangedFiles and filterRelevantFiles for one push event
ExtractCandidates ==
    /\ calc = NoCalc
    /\ \E commits \in CommitSeqs(MaxCommits) :
         LET changedFiles == ExtractChangedFiles([commits |-> commits], "push")
         IN  calc' = Calc("filterRelevantFiles", commits,
                          [ contentFiles |-> FilterContentFiles(changedFiles),
                            settingFiles |-> FilterSettingFiles(changedFiles) ])
    /\ UNCHANGED <<SequentialVars, ConcurrentVars>>

NextCandidates == ExtractCandidates

\* evaluations of the candidate list
SpecCandidates == InitRecursive /\ [][NextCandidates]_vars

----------------------------------------------------------------------------
(* GitHubSyncService (unnamed/part_003): the target files and the change   *)
(* detection.                                                              *)

\* a file as the contents API lists it for the service, with its blob sha
GitHubFile(entry, sha) ==
    [name |-> entry.name, path |-> entry.path, type |-> entry.type, sha |-> sha]

\* the blob sha the remote has for every file
RemoteSha == "s1"

\* fetchRepositoryContents(directory): the listing, or the Error it throws
\* when the request fails or the directory does not exist
FetchRepositoryContents(tree, directory, ok) ==
    IF ok /\ directory \in DOMAIN tree
    THEN [ok |-> TRUE,
          files |-> [i \in DOMAIN tree[directory] |->
                        GitHubFile(tree[directory][i], RemoteSha)]]
    ELSE [ok |-> FALSE, files |-> <<>>]

\* getFilesFromDirectory: the files of the listing with the extension;
\* nothing when fetchRepositoryContents threw
GetFilesFromDirectory(tree, directory, extension, ok) ==
    LET listing == FetchRepositoryContents(tree, directory, ok)
        Wanted(file) == file.type = "file" /\ EndsWith(file.name, extension)
    IN  IF listing.ok THEN SelectSeq(listing.files, Wanted) ELSE <<>>

\* getTargetFiles
GetTargetFiles(tree, okContents, okSettings) ==
    GetFilesFromDirectory(tree, S_contentsDir, S_mdx, okContents)
    \o GetFilesFromDirectory(tree, S_settingsDir, S_json, okSettings)

\* Map.prototype.get: "" stands for undefined
MapGet(map, key) == IF key \in DOMAIN map THEN map[key] ELSE ""

\* a change detection that keeps only the files without a stored sha
DetectChangesUnknownOnly(remoteFiles, localFileShas) ==
    LET Changed(remoteFile) == MapGet(localFileShas, remoteFile.path) = ""
    IN  SelectSeq(remoteFiles, Changed)

\* detectChanges: !localSha || localSha !== remoteFile.sha
DetectChanges(remoteFiles, localFileShas) ==
    LET Changed(remoteFile) ==
            LET localSha == MapGet(localFileShas, remoteFile.path)
            IN  localSha = "" \/ localSha # remoteFile.sha
    IN  SelectSeq(remoteFiles, Changed)

\* the paths a caller has shas for, and the shas it has
LocalPaths == {P_a, P_index, P_aIndex, P_site}

LocalShaMaps ==
    UNION { [paths -> {"s1", "s2", ""}] : paths \in SUBSET LocalPaths }

\* detectChanges(localFileShas) over a repository
ServiceDetectChanges ==
    /\ calc = NoCalc
    /\ \E tree \in Trees : \E okContents, okSettings \in BOOLEAN :
       \E localFileShas \in LocalShaMaps :
         LET remoteFiles == GetTargetFiles(tree, okContents, okSettings)
         IN  calc' = Calc("detectChanges",
                          [ tree |-> tree, okContents |-> okContents,
                            okSettings |-> okSettings,
                            localFileShas |-> localFileShas ],
                          [ targets |-> remoteFiles,
                            changed |-> DetectChanges(remoteFiles, localFileShas) ])
    /\ UNCHANGED <<SequentialVars, ConcurrentVars>>

NextDetect == ServiceDetectChanges

\* evaluations of the change detection
SpecDetect == InitRecursive /\ [][NextDetect]_vars

----------------------------------------------------------------------------
(* getAllMDXFiles of recursive-sync.ts as a function of a directory tree.  *)

\* how deep the directories below contents/ nest
MaxTreeDepth == 3

\* the name of a directory that ends like an article
N_dirMdx == <<"d">> \o S_mdx

\* the listings a directory can have: an article or none, another file or
\* none, then the subdirectories
FileListings(dir) ==
    { <<>>, << FileIn(dir, N_a) >>, << FileIn(dir, N_notes) >>,
      << FileIn(dir, N_notes), FileIn(dir, N_index) >> }

\* the trees of directory dir that nest up to n directories deep: dir may
\* hold a subdirectory s, and with it a subdirectory d.mdx of one article
RECURSIVE TreesBelow(_, _)
TreesBelow(dir, n) ==
    LET leaves == { dir :> files : files \in FileListings(dir) }
        sub == dir \o <<"/","s">>
        odd == dir \o <<"/">> \o N_dirMdx
    IN  IF n = 0 THEN leaves
        ELSE leaves
             \cup { (dir :> (<< DirIn(dir, <<"s">>) >> \o files)) @@ t :
                      files \in FileListings(dir), t \in TreesBelow(sub, n - 1) }
             \cup { (dir :> (<< DirIn(dir, <<"s">>) >> \o files
                                \o << DirIn(dir, N_dirMdx) >>))
                      @@ (odd :> << FileIn(odd, N_a) >>) @@ t :
                      files \in FileListings(dir), t \in TreesBelow(sub, n - 1) }

\* getAllMDXFiles(owner, repo, path, token): the loop over the items of a
\* listing, and the call for a directory
RECURSIVE GetAllMDXFiles(_, _)
RECURSIVE CollectMDXFiles(_, _)
CollectMDXFiles(tree, items) ==
    IF items = <<>> THEN <<>>
    ELSE LET item == Head(items)
             found == IF item.type = "file" /\ EndsWith(item.name, S_mdx)
                      THEN << item >>
                      ELSE IF item.type = "dir"
                      THEN GetAllMDXFiles(tree, item.path)
                      ELSE <<>>
         IN  found \o CollectMDXFiles(tree, Tail(items))

\* a getAllMDXFiles that lists the top directory only
GetAllMDXFilesFlat(tree, path) ==
    LET IsArticle(item) == item.type = "file" /\ EndsWith(item.name, S_mdx)
    IN  SelectSeq(tree[path], IsArticle)

GetAllMDXFiles(tree, path) == CollectMDXFiles(tree, tree[path])

\* recursiveSync lists the articles of a repository
ListAllMDXFiles ==
    /\ calc = NoCalc
    /\ \E tree \in TreesBelow(S_contentsDir, MaxTreeDepth) :
         calc' = Calc("getAllMDXFiles", tree, GetAllMDXFiles(tree, S_contentsDir))
    /\ UNCHANGED <<SequentialVars, ConcurrentVars>>

NextListing == ListAllMDXFiles

\* evaluations of getAllMDXFiles
SpecListing == InitRecursive /\ [][NextListing]_vars

----------------------------------------------------------------------------
(* GitHubSyncService.syncFiles, run on the repository that a recursiveSync *)
(* run has just synced.                                                    *)

\* SyncResult
SyncResult(success, filesProcessed, errors) ==
    [success |-> success, filesProcessed |-> filesProcessed, errors |-> errors]

\* the locals of a syncFiles call
SyncRun(p, changedFiles, files, result) ==
    [ kind |-> "syncFiles", pc |-> p, changedFiles |-> changedFiles,
      files |-> files, result |-> result ]

\* the stored shas a caller passes: none, or those of three files
SummaryShaMaps ==
    { << >>, [path \in {P_a, P_index, P_site} |-> RemoteSha] }

\* a catch of the loop that does not note the error
SyncFileFailedUnrecorded(result, path) == result

\* the catch of the loop over changedFiles: errors.push(errorMsg)
SyncFileFailed(result, path) == [result EXCEPT !.errors = Append(@, path)]

\* the end of the try of the loop: result.filesProcessed++
SyncFileProcessed(result) == [result EXCEPT !.filesProcessed = @ + 1]

\* recursiveSync is run once
SummaryRsStart ==
    /\ rs.pc = "off"
    /\ RsStart

\* syncFiles up to its loop: the result, and detectChanges
SyncFilesStart ==
    /\ rs.pc = "done" /\ inv[1].kind = "none"
    /\ \E localFileShas \in SummaryShaMaps : \E okContents \in BOOLEAN :
         LET changedFiles ==
               DetectChanges(GetTargetFiles(rs.tree, okContents, TRUE),
                             localFileShas)
         IN  inv' = [inv EXCEPT ![1] =
                       SyncRun("files", changedFiles, changedFiles,
                               SyncResult(TRUE, 0, <<>>))]
    /\ UNCHANGED <<SequentialVars, db, now, calc>>

\* syncFiles: one turn of the loop over changedFiles: fetchFileContent
\* gives the content or throws
SyncFilesFile ==
    /\ inv[1].kind = "syncFiles" /\ inv[1].pc = "files" /\ inv[1].files # <<>>
    /\ \E fetched_ok \in BOOLEAN :
         inv' = [inv EXCEPT
                   ![1].files = Tail(@),
                   ![1].result =
                       IF fetched_ok THEN SyncFileProcessed(@)
                       ELSE SyncFileFailed(@, Head(inv[1].files).path)]
    /\ UNCHANGED <<SequentialVars, db, now, calc>>

\* syncFiles: return result
SyncFilesReturn ==
    /\ inv[1].kind = "syncFiles" /\ inv[1].pc = "files" /\ inv[1].files = <<>>
    /\ inv' = [inv EXCEPT ![1].pc = "returned"]
    /\ UNCHANGED <<SequentialVars, db, now, calc>>

NextSummary ==
    \/ SummaryRsStart
    \/ RsList
    \/ RsListed
    \/ RsArticle
    \/ RsSettingsList
    \/ RsSetting
    \/ RsSummary
    \/ SyncFilesStart
    \/ SyncFilesFile
    \/ SyncFilesReturn

\* a recursiveSync run and then a syncFiles call
SpecSummary == InitRecursive /\ [][NextSummary]_vars

----------------------------------------------------------------------------
(* GitHubSyncService.fetchWithRetry: one call, with the clock in seconds.  *)

\* the default of the parameter maxRetries
MaxRetries == 3

\* a response with the headers fetchWithRetry reads: x-ratelimit-remaining,
\* x-ratelimit-reset and retry-after; -1 is a missing header
Response(st, remaining, reset, retryAfter) ==
    [status |-> st, remaining |-> remaining, reset |-> reset,
     retryAfter |-> retryAfter]

NoResponse == Response(0, -1, -1, -1)

\* parseInt(header || '0')
ParseIntOrZero(header) == IF header = -1 THEN 0 ELSE header

\* extractRateLimitInfo(response)
ExtractRateLimitInfo(response) ==
    [ remaining |-> ParseIntOrZero(response.remaining),
      reset |-> ParseIntOrZero(response.reset) ]

\* what the server can answer at time t: success, the primary rate limit
\* with a reset time ahead, the secondary rate limit, a 403 with calls
\* remaining, a 403 without any of the headers, a server error
ResponsesAt(t) ==
    { Response(200, 10, t + 2, -1), Response(403, 0, t + 2, -1),
      Response(403, 5, t + 2, 1), Response(403, 5, t + 2, -1),
      Response(403, -1, -1, -1), Response(500, 10, t + 2, -1) }

\* a sleep the call made: why, for how long, at what time, and how many
\* requests it had issued by then
Sleep(why, seconds, at, requests) ==
    [why |-> why, seconds |-> seconds, at |-> at, requests |-> requests]

\* the locals of a fetchWithRetry call, with the responses it has received
\* (NoResponse for a fetch that threw)
FetchCall(p, attempt, requests, responses, sleeps, lastError) ==
    [ kind |-> "fetchWithRetry", pc |-> p, attempt |-> attempt,
      requests |-> requests, responses |-> responses, sleeps |-> sleeps,
      lastError |-> lastError ]

\* Math.max(0, ms)
Max0(n) == IF n < 0 THEN 0 ELSE n

\* a backoff that does not grow
BackoffTimeFlat(attempt) == 2

\* Math.pow(2, attempt) * 1000, in seconds
BackoffTime(attempt) == 2 ^ attempt

\* the for statement after a turn: attempt++ and the test, then the throw
\* after the loop
NextAttempt(c) ==
    IF c.attempt + 1 <= MaxRetries
    THEN [c EXCEPT !.attempt = @ + 1, !.pc = "request"]
    ELSE [c EXCEPT !.attempt = @ + 1, !.pc = "thrown"]

\* await this.sleep(seconds), before the continue
Sleeping(c, why, seconds) ==
    [c EXCEPT !.pc = "sleeping",
              !.sleeps = Append(@, Sleep(why, Max0(seconds), now, c.requests))]

\* fetchWithRetry(url) is called
FetchBegin ==
    /\ inv[1].kind = "none"
    /\ inv' = [inv EXCEPT ![1] = FetchCall("request", 1, 0, <<>>, <<>>, "none")]
    /\ UNCHANGED <<SequentialVars, db, now, calc>>

\* one turn of the loop up to its sleep or return: the fetch answers
FetchAnswered ==
    /\ inv[1].kind = "fetchWithRetry" /\ inv[1].pc = "request"
    /\ \E response \in ResponsesAt(now) :
         LET c == [inv[1] EXCEPT !.requests = @ + 1,
                                 !.responses = Append(@, response)]
             rateLimitInfo == ExtractRateLimitInfo(response)
         IN  inv' = [inv EXCEPT ![1] =
               IF response.status = 403 /\ rateLimitInfo.remaining = 0
               THEN Sleeping(c, "rateLimit", rateLimitInfo.reset - now + 1)
               ELSE IF response.status = 403 /\ response.retryAfter # -1
               THEN Sleeping(c, "secondary", response.retryAfter)
               ELSE IF response.status >= 500 /\ c.attempt < MaxRetries
               THEN Sleeping(c, "backoff", BackoffTime(c.attempt))
               ELSE [c EXCEPT !.pc = "returned"]]
    /\ UNCHANGED <<SequentialVars, db, now, calc>>

\* one turn of the loop whose fetch throws: the catch
FetchThrew ==
    /\ inv[1].kind = "fetchWithRetry" /\ inv[1].pc = "request"
    /\ LET c == [inv[1] EXCEPT !.requests = @ + 1,
                               !.responses = Append(@, NoResponse),
                               !.lastError = "network"]
       IN  inv' = [inv EXCEPT ![1] =
             IF c.attempt < MaxRetries
             THEN Sleeping(c, "error", BackoffTime(c.attempt))
             ELSE NextAttempt(c)]
    /\ UNCHANGED <<SequentialVars, db, now, calc>>

\* the sleep is over: the continue, or the end of the catch
FetchWoke ==
    /\ inv[1].kind = "fetchWithRetry" /\ inv[1].pc = "sleeping"
    /\ now' = now + inv[1].sleeps[Len(inv[1].sleeps)].seconds
    /\ inv' = [inv EXCEPT ![1] = NextAttempt(inv[1])]
    /\ UNCHANGED <<SequentialVars, db, calc>>

NextFetch ==
    \/ FetchBegin
    \/ FetchAnswered
    \/ FetchThrew
    \/ FetchWoke

\* one call of fetchWithRetry
SpecFetch == InitRecursive /\ [][NextFetch]_vars

\* one call of fetchWithRetry whose fetches and timers complete
SpecFetchLive == InitRecursive /\ [][NextFetch]_vars /\ WF_vars(NextFetch)

----------------------------------------------------------------------------
(* validateFrontmatter of lib/mdx-parser as a function of the parsed       *)
(* front-matter.                                                           *)

\* a JavaScript value: its type, its text, and its items when an array
JsValue(t, v, items) == [t |-> t, v |-> v, items |-> items]

JsString(v) == JsValue("string", v, <<>>)

JsNumber(v) == JsValue("number", v, <<>>)

JsBoolean(v) == JsValue("boolean", v, <<>>)

JsArray(items) == JsValue("array", "", items)

JsUndefined == JsValue("undefined", "", <<>>)

\* a Date object, as js-yaml makes of an unquoted timestamp; v is its day
JsDate(v) == JsValue("date", v, <<>>)

\* Date.prototype.toString
DateToString(v) ==
    CASE v = "2024-01-01" -> "Mon Jan 01 2024 00:00:00 GMT+0000 (Coordinated Universal Time)"
      [] OTHER -> "Invalid Date"

\* Date.prototype.toISOString, which toJSON returns
DateToISOString(v) ==
    CASE v = "2024-01-01" -> "2024-01-01T00:00:00.000Z"
      [] OTHER -> "null"

\* the object {}
EmptyObject == [k \in {} |-> JsUndefined]

\* what gray-matter hands over: an object with its properties, or not one
FrontmatterData(t, properties) == [t |-> t, properties |-> properties]

\* a value in a condition
Truthy(value) ==
    CASE value.t \in {"undefined", "null"} -> FALSE
      [] value.t = "string" -> value.v # ""
      [] value.t = "number" -> value.v \notin {"0", "NaN"}
      [] value.t = "boolean" -> value.v = "true"
      [] OTHER -> TRUE

\* String(value) of a string, a number or a Date
ToJsString(value) ==
    IF value.t = "date" THEN JsString(DateToString(value.v)) ELSE JsString(value.v)

\* Array.prototype.includes on an array of strings
Includes(strings, value) == value.t = "string" /\ value.v \in strings

\* the filter over tags
StringItems(items) == SelectSeq(items, LAMBDA item : item.t = "string")

\* the fields copied when they hold a non-empty string
StringFields == {"title", "description", "author", "category", "image", "slug"}

FrontmatterStatuses == {"draft", "published", "archived"}

FrontmatterAccessLevels == {"public", "private", "premium"}

\* what the in operator finds in every object
ObjectPrototypeKeys == {"constructor"}

\* the fields validateFrontmatter sets before it copies the other ones
ValidatedFields(data) ==
    IF data.t # "object" THEN EmptyObject
    ELSE LET dataObj == data.properties
             set == { k \in DOMAIN dataObj :
                        \/ k \in StringFields /\ Truthy(dataObj[k]) /\ dataObj[k].t = "string"
                        \/ k = "date" /\ Truthy(dataObj[k])
                        \/ k = "tags" /\ dataObj[k].t = "array"
                        \/ k = "status" /\ Truthy(dataObj[k]) /\ Includes(FrontmatterStatuses, dataObj[k])
                        \/ k = "accessLevel" /\ Truthy(dataObj[k]) /\ Includes(FrontmatterAccessLevels, dataObj[k])
                        \/ k = "featured" /\ dataObj[k].t = "boolean" }
         IN  [ k \in set |->
                 CASE k = "date" -> ToJsString(dataObj[k])
                   [] k = "tags" -> JsArray(StringItems(dataObj[k].items))
                   [] OTHER -> dataObj[k] ]

\* validateFrontmatter(data): the known fields that pass their test, then
\* every other property of data that validated does not have
ValidateFrontmatter(data) ==
    IF data.t # "object" THEN EmptyObject
    ELSE LET dataObj == data.properties
             validated == ValidatedFields(data)
             copied == { key \in DOMAIN dataObj :
                           /\ ~(key \in DOMAIN validated \/ key \in ObjectPrototypeKeys)
                           /\ dataObj[key] # JsUndefined }
         IN  [ key \in DOMAIN validated \cup copied |->
                 IF key \in DOMAIN validated THEN validated[key] ELSE dataObj[key] ]

\* the values a front-matter property is given
FrontmatterValues(key) ==
    CASE key = "title" -> {JsString("T"), JsString(""), JsNumber("5")}
      [] key = "date" -> {JsString("2024-01-01"), JsNumber("2024"), JsDate("2024-01-01")}
      [] key = "tags" -> {JsArray(<<JsString("a"), JsNumber("1")>>)}
      [] key = "status" -> {JsString(s) : s \in FrontmatterStatuses \cup {"bogus", ""}}
      [] key = "accessLevel" -> {JsString(s) : s \in FrontmatterAccessLevels \cup {"bogus"}}
      [] key = "featured" -> {JsBoolean("true"), JsString("yes")}
      [] key = "updated" -> {JsDate("2024-01-01")}
      [] OTHER -> {JsString("wide"), JsUndefined}

FrontmatterKeys ==
    { "title", "date", "tags", "status", "accessLevel", "featured", "layout",
      "updated", "constructor" }

RECURSIVE FrontmatterObjects(_)
\* the objects with some of the keys, each with one of its values
FrontmatterObjects(keys) ==
    IF keys = {} THEN {EmptyObject}
    ELSE LET key == CHOOSE k \in keys : TRUE
             rest == FrontmatterObjects(keys \ {key})
         IN  rest \cup { [k \in DOMAIN f \cup {key} |-> IF k = key THEN v ELSE f[k]] :
                           f \in rest, v \in FrontmatterValues(key) }

\* the front-matter objects, and what is no object
FrontmatterInputs ==
    { FrontmatterData("null", EmptyObject), FrontmatterData("string", EmptyObject) }
    \cup { FrontmatterData("object", f) : f \in FrontmatterObjects(FrontmatterKeys) }

\* parseMDXFile validates the front-matter gray-matter has parsed
ParseValidateFrontmatter ==
    /\ calc = NoCalc
    /\ \E data \in FrontmatterInputs :
         calc' = Calc("validateFrontmatter", data, ValidateFrontmatter(data))
    /\ UNCHANGED <<SequentialVars, ConcurrentVars>>

\* a JSON text: what it denotes, as a string, a number, true or false,
\* null or an array
JsonText(t, v, items) == [json |-> t, text |-> v, items |-> items]

\* JSON.stringify of a value that is no array and no object
JsonStringifyScalar(value) ==
    CASE value.t = "date" -> JsonText("string", DateToISOString(value.v), <<>>)
      [] value.t = "number" /\ value.v \in {"NaN", "Infinity"} -> JsonText("null", "", <<>>)
      [] value.t = "undefined" -> JsonText("null", "", <<>>)
      [] OTHER -> JsonText(value.t, value.v, <<>>)

\* JSON.stringify of a property value
JsonStringifyValue(value) ==
    IF value.t = "array"
    THEN JsonText("array", "", [i \in DOMAIN value.items |-> JsonStringifyScalar(value.items[i])])
    ELSE JsonStringifyScalar(value)

\* JSON.stringify(frontmatter): the properties that are not undefined
JsonStringifyObject(object) ==
    [ key \in { k \in DOMAIN object : object[k] # JsUndefined } |->
        JsonStringifyValue(object[key]) ]

\* JSON.parse of the text of a property value
JsonParseValue(text) ==
    JsValue(text.json, text.text,
            [i \in DOMAIN text.items |-> JsValue(text.items[i].json, text.items[i].text, <<>>)])

\* JSON.parse of the text of an object
JsonParseObject(text) == [key \in DOMAIN text |-> JsonParseValue(text[key])]

\* the validated front-matter is validated again, as it is and as it comes
\* back from the stored JSON text
RevalidateFrontmatter ==
    /\ calc.fn = "validateFrontmatter"
    /\ LET reparsed == JsonParseObject(JsonStringifyObject(calc.out))
       IN  calc' = Calc("revalidate", calc.out,
                        [ again |-> ValidateFrontmatter(FrontmatterData("object", calc.out)),
                          reparsed |-> ValidateFrontmatter(FrontmatterData("object", reparsed)) ])
    /\ UNCHANGED <<SequentialVars, ConcurrentVars>>

NextFrontmatter ==
    \/ ParseValidateFrontmatter
    \/ RevalidateFrontmatter

SpecFrontmatter == InitRecursive /\ [][NextFrontmatter]_vars

----------------------------------------------------------------------------
(* generateSlug of lib/mdx-parser as a function of the title.              *)

\* how many characters a title has at most
MaxTitleLen == 4

\* the characters of titles: letters of both cases, a digit, white space,
\* a hyphen and punctuation
TitleChars == {"a", "A", "1", " ", "\t", "-", "!"}

\* what \s matches
WhiteSpace == {" ", "\t", "\n"}

\* what [a-z0-9] matches
LowerAlphanumeric == {"a", "b", "i", "1", "2"}

\* String.prototype.toLowerCase on one character
ToLowerCase(c) ==
    CASE c = "A" -> "a" [] c = "B" -> "b" [] c = "I" -> "i" [] OTHER -> c

\* the titles of at most n characters
RECURSIVE Titles(_)
Titles(n) ==
    IF n = 0 THEN {<<>>}
    ELSE Titles(n - 1) \cup {Append(t, c) : t \in Titles(n - 1), c \in TitleChars}

\* .replace(/\s+/g, '-')
RECURSIVE HyphenateWhiteSpace(_)
HyphenateWhiteSpace(str) ==
    IF str = <<>> THEN <<>>
    ELSE IF str[1] \notin WhiteSpace THEN <<str[1]>> \o HyphenateWhiteSpace(Tail(str))
    ELSE IF Len(str) > 1 /\ str[2] \in WhiteSpace THEN HyphenateWhiteSpace(Tail(str))
    ELSE <<"-">> \o HyphenateWhiteSpace(Tail(str))

\* String.prototype.trim
RECURSIVE Trim(_)
Trim(str) ==
    IF str = <<>> THEN <<>>
    ELSE IF str[1] \in WhiteSpace THEN Trim(Tail(str))
    ELSE IF str[Len(str)] \in WhiteSpace THEN Trim(SubSeq(str, 1, Len(str) - 1))
    ELSE str

\* generateSlug(title)
GenerateSlug(title) ==
    LET lower == [i \in DOMAIN title |-> ToLowerCase(title[i])]
        kept == SelectSeq(lower, LAMBDA c : c \in LowerAlphanumeric \cup WhiteSpace)
    IN  Trim(HyphenateWhiteSpace(kept))

\* generateSlug is called with a title
CallGenerateSlug ==
    /\ calc = NoCalc
    /\ \E title \in Titles(MaxTitleLen) :
         calc' = Calc("generateSlug", title, GenerateSlug(title))
    /\ UNCHANGED <<SequentialVars, ConcurrentVars>>

NextGenerateSlug == CallGenerateSlug

SpecGenerateSlug == InitRecursive /\ [][NextGenerateSlug]_vars

----------------------------------------------------------------------------
(* recursiveSync while the store becomes unreachable: from the first       *)
(* statement that fails for this reason, every statement sent to the store *)
(* fails.                                                                  *)

\* a statement of this run has failed because the store is unreachable
StoreDown ==
    \/ \E i \in DOMAIN rs.log : rs.log[i].kind = "storeDown"
    \/ \E i \in DOMAIN rs.slog : rs.slog[i].kind = "storeDown"

\* a turn of the loop over allMDXFiles while the store answers
OutageRsArticle == ~StoreDown /\ RsArticle

\* a turn of the loop over allMDXFiles whose upsert, if the turn gets that
\* far, meets the unreachable store: the catch counts the error and the
\* loop goes on
RsArticleStoreDown ==
    /\ rs.pc = "articles" /\ rs.files # <<>>
    /\ \E kind \in {"fetchFail", "malformed", "storeDown"} :
         /\ (kind # "storeDown" => StoreDown)
         /\ rs' = ArticleFailed(rs, kind)
    /\ UNCHANGED <<WebhookVars, contents, settings, storeAtStart>>
    /\ UNCHANGED <<ConcurrentVars, calc>>

\* a turn of the loop over settingsFiles while the store answers
OutageRsSetting == ~StoreDown /\ RsSetting

\* a turn of the loop over settingsFiles whose upsert meets the unreachable
\* store: the inner catch warns and the loop goes on
RsSettingStoreDown ==
    /\ rs.pc = "settings" /\ rs.settingsFiles # <<>>
    /\ LET file == Head(rs.settingsFiles)
       IN  \E kind \in {"fetchFail", "malformed", "storeDown"} :
             /\ (kind # "storeDown" => StoreDown)
             /\ rs' = IF file.type = "file" /\ EndsWith(file.name, S_json)
                       THEN [rs EXCEPT
                               !.slog = Append(@, Result(kind,
                                                  RecursiveSettingKey(file), NoValue)),
                               !.settingsFiles = Tail(@)]
                       ELSE [rs EXCEPT !.settingsFiles = Tail(@)]
    /\ UNCHANGED <<WebhookVars, contents, settings, storeAtStart>>
    /\ UNCHANGED <<ConcurrentVars, calc>>

\* the final selects: they throw when the store is unreachable
OutageRsSummary ==
    /\ RsSummary
    /\ StoreDown => rs'.pc = "exit1"

NextOutage ==
    \/ RsStart
    \/ RsList
    \/ RsListed
    \/ OutageRsArticle
    \/ RsArticleStoreDown
    \/ RsSettingsList
    \/ OutageRsSetting
    \/ RsSettingStoreDown
    \/ OutageRsSummary

\* runs of scripts/recursive-sync.ts during which the store may become
\* unreachable
SpecOutage == InitRecursive /\ [][NextOutage]_vars

----------------------------------------------------------------------------
(* recursiveSync with calls that all return or throw.                      *)

\* runs of scripts/recursive-sync.ts in which every awaited call completes
SpecRecursiveLive == InitRecursive /\ [][NextRecursive]_vars /\ WF_vars(NextRecursive)

----------------------------------------------------------------------------
(* The slug of one article file on each sync path, and the slugs of two    *)
(* article files on the bulk path.                                         *)

\* fullSync: the slug of an article file; its last replace puts a slash
\* for every slash
FullSyncSlug(path) == ReplaceFirst(ReplaceFirst(path, S_contents, <<>>), S_mdx, <<>>)

\* the front-matter of an article: without a slug field, and with one
SlugFrontmatters == {FM_empty, FM_full}

\* one file with its front-matter is given to each sync path
DeriveSlugOnEachPath ==
    /\ calc = NoCalc
    /\ \E path \in ArticlePaths : \E fm \in SlugFrontmatters :
         calc' = Calc("slugOnEachPath", [path |-> path, fm |-> fm],
                      [ webhook |-> TemplateSlug(fm, path),
                        recursive |-> RecursiveSlug(path),
                        full |-> FullSyncSlug(path) ])
    /\ UNCHANGED <<SequentialVars, ConcurrentVars>>

\* recursiveSync meets two article files
DeriveSlugPair ==
    /\ calc = NoCalc
    /\ \E path1 \in ArticlePaths : \E path2 \in ArticlePaths :
         calc' = Calc("slugPair", <<path1, path2>>,
                      <<RecursiveSlug(path1), RecursiveSlug(path2)>>)
    /\ UNCHANGED <<SequentialVars, ConcurrentVars>>

NextSlugs ==
    \/ DeriveSlugOnEachPath
    \/ DeriveSlugPair

SpecSlugs == InitRecursive /\ [][NextSlugs]_vars

----------------------------------------------------------------------------
(* GitHubSyncService.syncSettingsToDatabase of scripts/check-database.ts,  *)
(* over the queries of TEMPLATE_db_queries.ts.                             *)

P_nav == S_settings \o N_nav

\* a settings file getSettingsFiles returns: its path and parsed content
SettingsFile(path, content) == [path |-> path, content |-> content]

\* the parsed content of settings files
SettingsContents == { JsonValue("object", v) : v \in {"site1", "site2"} }

\* what getSettingsFiles can return: the files of settings/ it could fetch
\* and parse, in the order of the listing
SettingsFileLists ==
    {<<>>}
    \cup { <<SettingsFile(P_site, c)>> : c \in SettingsContents }
    \cup { <<SettingsFile(P_nav, c)>> : c \in SettingsContents }
    \cup { <<SettingsFile(P_site, c1), SettingsFile(P_nav, c2)>> :
             c1 \in SettingsContents, c2 \in SettingsContents }

\* the value updateSetting is handed: file.content as it is
RawValue(content) == [enc |-> "raw", val |-> content]

\* the locals of a syncSettingsToDatabase call, and the files it has
\* counted as successes
SettingsSync(p, files, success, errors, counted) ==
    [ kind |-> "syncSettings", pc |-> p, files |-> files, success |-> success,
      errors |-> errors, counted |-> counted ]

\* the key of a settings file
SettingsSyncKey(path) ==
    ReplaceFirst(ReplaceFirst(path, S_settings, <<>>), S_json, <<>>)

\* a setting is created before the sync
SeedSetting ==
    /\ inv[1].kind = "none"
    /\ \E key \in ClientKeys : \E value \in ClientValues :
         LET r == CreateSetting(db, key, value, now)
         IN  r.ok /\ db' = r.db
    /\ UNCHANGED <<SequentialVars, now, inv, calc>>

\* syncSettingsToDatabase up to its loop: getSettingsFiles returns the
\* files or throws, which the outer catch counts as one error
SettingsSyncStart ==
    /\ inv[1].kind = "none"
    /\ \/ \E files \in SettingsFileLists :
            inv' = [inv EXCEPT ![1] = SettingsSync("files", files, 0, 0, <<>>)]
       \/ inv' = [inv EXCEPT ![1] = SettingsSync("returned", <<>>, 0, 1, <<>>)]
    /\ UNCHANGED <<SequentialVars, db, now, calc>>

\* one turn of the loop over settingsFiles: updateSetting returns, with
\* the row or with null, and success++; or it throws, and errors++
SettingsSyncFile ==
    /\ inv[1].kind = "syncSettings" /\ inv[1].pc = "files" /\ inv[1].files # <<>>
    /\ LET file == Head(inv[1].files)
           key == SettingsSyncKey(file.path)
       IN  \/ /\ db' = UpdateSetting(db, key, RawValue(file.content), now)
              /\ inv' = [inv EXCEPT ![1].files = Tail(@),
                                    ![1].success = @ + 1,
                                    ![1].counted = Append(@, file)]
           \/ /\ db' = db
              /\ inv' = [inv EXCEPT ![1].files = Tail(@), ![1].errors = @ + 1]
    /\ UNCHANGED <<SequentialVars, now, calc>>

\* return { success, errors }
SettingsSyncReturn ==
    /\ inv[1].kind = "syncSettings" /\ inv[1].pc = "files" /\ inv[1].files = <<>>
    /\ inv' = [inv EXCEPT ![1].pc = "returned"]
    /\ UNCHANGED <<SequentialVars, db, now, calc>>

NextSettingsSync ==
    \/ SeedSetting
    \/ SettingsSyncStart
    \/ SettingsSyncFile
    \/ SettingsSyncReturn

\* settings are created, then syncSettingsToDatabase is called once
SpecSettingsSync == InitRecursive /\ [][NextSettingsSync]_vars

----------------------------------------------------------------------------
(* Properties of the webhook handlers.                                     *)

\* the request passed the checks that precede the signature check
Validated == secretSet /\ (handler = "route" => req.tenantOk /\ req.event # "")

\* the signature is missing, has an unknown prefix, or is not the HMAC of
\* the raw body
BadSignature(s, body) ==
    \/ Falsy(s)
    \/ s.pre \notin {S_sha256eq, S_sha1eq}
    \/ s.pre = S_sha256eq /\ s.hex # Mac("sha256", body)
    \/ s.pre = S_sha1eq /\ s.hex # Mac("sha1", body)

\* the request carries the signature the handler asks for: route.ts the
\* HMAC-SHA256 of the body, the template that or the legacy HMAC-SHA1
CorrectlySigned ==
    IF handler = "route" THEN req.sig = Expected256(req.body)
    ELSE ~BadSignature(TemplateSignature(req), req.body)

NoSyncEffect == fetched = {} /\ writes = {} /\ Store = storeAtStart

\* C1: route.ts, secret configured: a request whose x-hub-signature-256 is
\* missing or is not the HMAC-SHA256 of the raw body is answered 401 and no
\* event processor is invoked for it.
C1_RouteRejectsUnsigned ==
    (handler = "route" /\ Validated /\ req.sig # Expected256(req.body))
        => /\ invoked = {}
           /\ pc = "done" => status = 401

\* C2: template handler: a request whose signature is missing, has an
\* unknown prefix or does not match the HMAC of the raw body is answered 401
\* before any fetch and any store write; the store is unchanged.
C2_TemplateRejectsBadSignature ==
    (handler = "template" /\ secretSet
     /\ BadSignature(TemplateSignature(req), req.body))
        => /\ pc \in {"start", "done"}
           /\ pc = "done" => status = 401
           /\ NoSyncEffect

\* C2 witness: a mismatching signature of the right length was answered 401
\* while the store held records
C2_Witness ==
    /\ handler = "template" /\ pc = "done" /\ status = 401
    /\ req.sig = Header(S_sha256eq, Junk(Sha256HexLen))
    /\ DOMAIN contents # {}
    /\ DOMAIN settings # {}

\* C3: route.ts: a signature header that is present but wrong yields 401,
\* whatever its length; a signature failure never yields a 5xx.
C3_RouteWrongSignatureIs401 ==
    (handler = "route" /\ Validated /\ pc = "done"
     /\ ~Falsy(req.sig) /\ req.sig # Expected256(req.body))
        => status = 401

\* C4: both handlers parse the body only after the signature check passed:
\* a mis-signed request with a malformed body yields 401, a correctly signed
\* one yields 400 and processes no event.
C4_VerifyBeforeParse ==
    (handler # "none" /\ Validated /\ ~req.body.wellFormed)
        => /\ invoked = {} /\ ~syncTriggered /\ NoSyncEffect
           /\ pc = "done" => status = (IF CorrectlySigned THEN 400 ELSE 401)

\* C5: a correctly signed push whose ref is not exactly refs/heads/<default
\* branch> causes no fetch and no store write and reports nothing processed.
C5_OtherRefIsNoOp ==
    (handler # "none" /\ Validated /\ CorrectlySigned /\ req.event = "push"
     /\ req.body.wellFormed
     /\ req.body.ref # S_refsHeads \o req.body.default_branch)
        => NoSyncEffect /\ processed = <<0, 0>>

\* C6: a pull_request event triggers sync processing only if it is closed,
\* merged and based on the default branch; any other pull_request event
\* causes no fetch and no store write.
C6_OnlyMergedPullRequestsSync ==
    (req.event = "pull_request" /\ (syncTriggered \/ ~NoSyncEffect))
        => /\ req.body.wellFormed
           /\ req.body.action = "closed"
           /\ req.body.merged
           /\ req.body.base_ref = req.body.default_branch

\* C6 witness: the template handler accepted a merged pull request
C6_Witness ==
    /\ handler = "template" /\ pc = "done" /\ status = 200
    /\ req.event = "pull_request" /\ syncTriggered

\* C7: once a handler has accepted a closed, merged pull request on the
\* default branch, the .mdx and .json files that pull request changed are
\* upserted into the store.
C7_MergedPullRequestIsSynced ==
    (handler # "none" /\ Validated /\ CorrectlySigned /\ pc = "done"
     /\ status = 200 /\ req.event = "pull_request" /\ syncTriggered)
        => \A f \in req.prFiles :
             /\ IsContentFile(f) => HasContent(contents, TemplateSlug(FM_empty, f))
             /\ IsSettingFile(f) => TemplateSettingKey(f) \in DOMAIN settings

\* C8: a correctly signed ping is acknowledged with a success response and
\* causes no fetch and no store write.
C8_PingIsAcknowledged ==
    (handler # "none" /\ Validated /\ CorrectlySigned /\ req.event = "ping"
     /\ req.body.wellFormed)
        => /\ invoked = {} /\ ~syncTriggered /\ NoSyncEffect
           /\ pc = "done" => status = 200

\* C8 witness: the template handler acknowledged a signed ping over a filled
\* store
C8_Witness ==
    /\ handler = "template" /\ pc = "done" /\ status = 200
    /\ req.event = "ping" /\ req.body.wellFormed /\ CorrectlySigned
    /\ DOMAIN contents # {}

\* C10: template handler: each new article is committed on its own: a store
\* failure on one insert neither rolls back nor prevents the inserts of the
\* other new articles of the event, and the request is not answered with an
\* error.
C10_InsertsAreIndependent ==
    (handler = "template" /\ pc = "done" /\ "batchCreateContents" \in writes)
        => /\ status = 200
           /\ \A i \in 1..Len(newContents) :
                HasContent(contents, newContents[i].slug)

----------------------------------------------------------------------------
(* Properties of recursiveSync.                                            *)

\* the entries of a log with one of `kinds`
Entries(log, kinds) == {i \in 1..Len(log) : log[i].kind \in kinds}

\* what the last synced entry for `key` carried
LastSynced(log, key) ==
    LET hits == {i \in Entries(log, {"synced"}) : log[i].key = key}
    IN  log[CHOOSE i \in hits : \A j \in hits : j <= i].row

IsJsonFile(file) == file.type = "file" /\ EndsWith(file.name, S_json)

----------------------------------------------------------------------------
(* Properties of the slug derivation.                                      *)

\* the path without its leading 'contents/' and its trailing '.mdx', a
\* trailing '/index' dropped, 'index' when nothing is left
PathStemSlug(path) ==
    LET s1 == SubSeq(path, Len(S_contents) + 1, Len(path) - Len(S_mdx))
        s2 == IF EndsWith(s1, S_slashIndex)
              THEN SubSeq(s1, 1, Len(s1) - Len(S_slashIndex)) ELSE s1
    IN  IF s2 = <<>> THEN S_index ELSE s2

\* C17: the slug recursiveSync derives from an article path is the path
\* without the leading 'contents/' and the trailing '.mdx', with a trailing
\* '/index' dropped, and 'index' when that leaves nothing, for every path
\* under contents/.
C17_SlugIsPathStem ==
    calc.fn = "recursiveSlug" => calc.out = PathStemSlug(calc.arg)

----------------------------------------------------------------------------
(* Properties of the invocations against the database.                     *)

\* the applications of a write of `kinds` to slug: process and log index
Applications(slug, kinds) ==
    UNION { { <<p, i>> : i \in { k \in DOMAIN inv[p].log :
                                  /\ inv[p].log[k].kind \in kinds
                                  /\ inv[p].log[k].key = slug } } :
            p \in Procs }

\* the log entry of an application
EntryOf(a) == inv[a[1]].log[a[2]]

\* the slugs the invocations handle
SyncSlugs == {<<"a">>, S_index}

\* C11: when recursiveSync's article upsert has been applied exactly twice
\* for a slug, with identical parsed content, there is exactly one record
\* for the slug, its syncable fields are that content, its updated_at is the
\* time of the second application and its created_at is the value the first
\* application set.
C11_UpsertTwiceIsOneRecord ==
    \A slug \in SyncSlugs :
      LET apps == Applications(slug, {"synced"})
      IN  ( /\ Cardinality(apps) = 2
            /\ \A a, b \in apps : EntryOf(a).fields = EntryOf(b).fields )
          => \A a, b \in apps :
               (a # b /\ EntryOf(a).at <= EntryOf(b).at)
               => /\ Cardinality(SelectBySlug(db, slug)) = 1
                  /\ \A r \in SelectBySlug(db, slug) :
                       /\ r.fields = EntryOf(b).fields
                       /\ r.updated_at.t = EntryOf(b).at
                       /\ r.created_at = SqlTimestamp(EntryOf(a).at)

\* C11 witness: the same content was upserted for slug a at time 0 and
\* again at a later time
C11_Witness ==
    LET apps == Applications(<<"a">>, {"synced"})
    IN  /\ Cardinality(apps) = 2
        /\ \A a, b \in apps : EntryOf(a).fields = EntryOf(b).fields
        /\ \E a, b \in apps : EntryOf(a).at = 0 /\ EntryOf(b).at > 0

\* what the database holds, ids and timestamps aside
SyncableView(d) ==
    [ contents |-> {[slug |-> r.slug, fields |-> r.fields] : r \in d.contents},
      settings |-> {[key |-> r.key, value |-> r.value] : r \in d.settings} ]

\* what the fetches of an invocation gave, file by file
Fetches(p) == [i \in DOMAIN inv[p].log |-> <<inv[p].log[i].path, inv[p].log[i].o>>]

\* process q handled a redelivery of the push event process p had handled
\* with success: the same event, begun after p had answered, with the
\* remote files as p had found them
Redelivered(p, q) ==
    /\ inv[p].kind = "webhook" /\ inv[q].kind = "webhook"
    /\ inv[p].pc = "done" /\ inv[q].pc = "done"
    /\ inv[p].status = 200
    /\ p \in inv[q].doneAtStart
    /\ inv[q].before = inv[p].after
    /\ inv[p].work = inv[q].work
    /\ Len(inv[p].log) = Len(inv[q].log)
    /\ Fetches(p) = Fetches(q)

\* C12: template handler: when a push event that was processed with success
\* is delivered again, the remote files unchanged, the second delivery is
\* answered with success too and leaves the article slugs, the setting keys
\* and all syncable field values as the first delivery left them.
C12_RedeliveryIsIdempotent ==
    \A p, q \in Procs :
        Redelivered(p, q)
        => /\ inv[q].status = 200
           /\ SyncableView(inv[q].after) = SyncableView(inv[p].after)

\* C12 witness: a redelivery that found all its files met the rows the
\* first delivery had created and updated
C12_Witness ==
    /\ Redelivered(1, 2)
    /\ \E i \in DOMAIN inv[1].log : inv[1].log[i].kind = "create"
    /\ \E i \in DOMAIN inv[1].log : inv[1].log[i].kind = "update"
    /\ \A i \in DOMAIN inv[2].log : inv[2].log[i].kind \in {"update", "setting"}
    /\ inv[2].after.settings # {}

\* C13: in every reachable state of the database, whatever the interleaving
\* of sync invocations and of createContent and createSetting calls, no two
\* rows of contents share a slug and no two rows of settings share a key.
C13_SlugsAndKeysAreUnique ==
    /\ \A r, q \in db.contents : r.slug = q.slug => r = q
    /\ \A r, q \in db.settings : r.key = q.key => r = q

\* C13 witness: an insert of a slug that another invocation had inserted was
\* refused
C13_Witness ==
    \E p, q \in Procs :
        /\ p # q
        /\ \E i \in DOMAIN inv[p].log : \E k \in DOMAIN inv[q].log :
             /\ inv[p].log[i].kind = "create"
             /\ inv[q].log[k].kind = "failed"
             /\ inv[p].log[i].key = inv[q].log[k].key
             /\ SelectBySlug(db, inv[p].log[i].key) # {}

\* the kinds of invocation that are syncs
SyncKinds == {"recursiveSync", "webhook", "syncMDXFiles"}

\* the entries of process p for slug
EntriesFor(p, slug) ==
    { i \in DOMAIN inv[p].log :
        /\ inv[p].log[i].kind \in {"synced", "create", "update", "failed"}
        /\ inv[p].log[i].key = slug }

\* process p ran into a store error
StoreError(p) ==
    \/ inv[p].status = 500
    \/ \E i \in DOMAIN inv[p].log : inv[p].log[i].kind = "failed"

\* C14: when two sync invocations run at the same time and each processes
\* one file of a slug that has no record yet, both end without a store error
\* and exactly one record of the slug exists afterwards.
C14_ConcurrentFirstSyncIsAtomic ==
    \A slug \in SyncSlugs : \A p, q \in Procs :
        ( /\ p # q
          /\ inv[p].kind \in SyncKinds /\ inv[q].kind \in SyncKinds
          /\ inv[p].pc = "done" /\ inv[q].pc = "done"
          /\ slug \notin Slugs(inv[p].before)
          /\ slug \notin Slugs(inv[q].before)
          /\ Cardinality(EntriesFor(p, slug)) = 1
          /\ Cardinality(EntriesFor(q, slug)) = 1 )
        => /\ ~StoreError(p) /\ ~StoreError(q)
           /\ Cardinality(SelectBySlug(db, slug)) = 1

\* the fields of the rows of slug in d
FieldsOf(d, slug) == { r.fields : r \in SelectBySlug(d, slug) }

\* the article upserts of slug that this step commits
CommittedNow(slug) ==
    { inv'[p].log[Len(inv'[p].log)] : p \in
        { q \in Procs :
            /\ Len(inv'[q].log) = Len(inv[q].log) + 1
            /\ inv'[q].log[Len(inv'[q].log)].kind = "synced"
            /\ inv'[q].log[Len(inv'[q].log)].key = slug } }

\* C15: while only recursiveSync invocations run, every article upsert
\* succeeds and leaves exactly one record of its slug whose syncable fields
\* are in full those of the upsert just committed, and no other step of the
\* invocations changes the record: the final record is the last committed
\* payload, never a mixture of two.
C15_LastUpsertWinsWhole ==
    [][ (\A p \in Procs : inv'[p].kind \in {"none", "recursiveSync"})
        => \A slug \in SyncSlugs :
             IF CommittedNow(slug) # {}
             THEN /\ Cardinality(SelectBySlug(db', slug)) = 1
                  /\ FieldsOf(db', slug)
                       = { e.fields : e \in CommittedNow(slug) }
             ELSE FieldsOf(db', slug) = FieldsOf(db, slug) ]_vars

\* C15 witness: two recursiveSync invocations that ran at the same time have
\* both upserted slug a, with different payloads, and have ended; the record
\* holds one of the two payloads
C15_Witness ==
    /\ \A p \in Procs : inv[p].kind = "recursiveSync" /\ inv[p].pc = "done"
    /\ 1 \notin inv[2].doneAtStart /\ 2 \notin inv[1].doneAtStart
    /\ \E a, b \in Applications(<<"a">>, {"synced"}) :
         /\ a[1] = 1 /\ b[1] = 2
         /\ EntryOf(a).fields # EntryOf(b).fields
         /\ FieldsOf(db, <<"a">>) \subseteq {EntryOf(a).fields, EntryOf(b).fields}
    /\ Cardinality(SelectBySlug(db, <<"a">>)) = 1

\* C16: no step of a sync invocation or of a direct call removes a record:
\* the set of article slugs and the set of settings keys in the database
\* never shrink, a removed path or a file the fetch does not find being
\* skipped.
C16_NothingIsDeleted ==
    [][ /\ Slugs(db) \subseteq Slugs(db')
        /\ Keys(db) \subseteq Keys(db') ]_vars

\* C16 witness: a webhook delivery of a push that removed contents/index.mdx
\* found neither that file nor contents/a.mdx, skipped both and ended with
\* success; the records of index and a, there when it began, are still there
C16_Witness ==
    \E p \in Procs :
        /\ inv[p].kind = "webhook" /\ inv[p].pc = "done" /\ inv[p].status = 200
        /\ \E i \in DOMAIN inv[p].work :
             \E k \in DOMAIN inv[p].work[i].removed :
                inv[p].work[i].removed[k] = P_index
        /\ \A path \in {P_a, P_index} :
             \E i \in DOMAIN inv[p].log :
                inv[p].log[i].kind = "skipped" /\ inv[p].log[i].path = path
        /\ {<<"a">>, S_index} \subseteq Slugs(inv[p].before)
        /\ {<<"a">>, S_index} \subseteq Slugs(db)

----------------------------------------------------------------------------
(* Properties of the template handler's responses and stored values.       *)

\* the content files of the event that were read and gave no article: the
\* fetch returned null or the parse threw
FailedContentFiles ==
    processed[1] - Len(contentFiles) - Len(contentUpdates) - Len(newContents)

\* C18: template handler: a correctly signed push to the default branch, of
\* which some content file failed to fetch or parse, is answered with the
\* success response and its counts.
C18_PushSucceedsDespiteFileFailures ==
    ( /\ handler = "template" /\ pc = "done" /\ secretSet /\ CorrectlySigned
      /\ req.event = "push" /\ req.body.wellFormed
      /\ ShouldProcessEvent(req.body, req.event)
      /\ CommitRef(req.body, req.event) # ""
      /\ FailedContentFiles > 0 )
    => status = 200

\* C19: template handler: when processSettingsFiles has written the value
\* of a settings file, what is stored under the file's key parses back with
\* JSON.parse to the JSON value the file contained.
C19_StoredSettingParsesBack ==
    [][ ( /\ handler = "template" /\ pc = "settings"
          /\ settingFiles # <<>> /\ settings' # settings )
        => LET key == TemplateSettingKey(Head(settingFiles))
           IN  /\ key \in DOMAIN settings'
               /\ \E o \in SettingOutcomes :
                    /\ o.kind = "json"
                    /\ JsonParse(settings'[key]) = [ok |-> TRUE, value |-> o.value]
       ]_vars

----------------------------------------------------------------------------
(* Properties of the stored enumerations.                                  *)

\* ContentStatus
ContentStatus == {"draft", "published", "archived"}

\* AccessLevel
AccessLevel == {"public", "private", "premium"}

\* C20: every article record in the database has a status of ContentStatus
\* and an access_level of AccessLevel, whatever the front-matter of the file
\* it was synced from contains.
C20_StoredEnumsAreValid ==
    \A r \in db.contents :
        /\ r.fields.status \in ContentStatus
        /\ r.fields.access_level \in AccessLevel

----------------------------------------------------------------------------
(* Properties of the query functions.                                      *)

----------------------------------------------------------------------------
(* Properties of the candidate lists.                                      *)

\* the elements of a sequence
Range(seq) == {seq[i] : i \in DOMAIN seq}

\* the paths the commits of a push name
NamedPaths(commits) ==
    UNION { Range(commits[i].added) \cup Range(commits[i].modified)
              \cup Range(commits[i].removed) : i \in DOMAIN commits }

\* a sequence without repetitions
NoRepeats(seq) == \A i, j \in DOMAIN seq : seq[i] = seq[j] => i = j

\* C23: for a push event the candidate list holds each path at most once
\* and holds exactly the paths named by added, modified or removed of some
\* commit that start with 'contents/' and end with '.mdx' or start with
\* 'settings/' and end with '.json'.
C23_CandidatesAreTheRelevantPaths ==
    calc.fn = "filterRelevantFiles" =>
        LET candidates == calc.out.contentFiles \o calc.out.settingFiles
        IN  /\ NoRepeats(candidates)
            /\ Range(candidates) =
                 { p \in NamedPaths(calc.arg) :
                     \/ StartsWith(p, S_contents) /\ EndsWith(p, S_mdx)
                     \/ StartsWith(p, S_settings) /\ EndsWith(p, S_json) }

\* C23 witness: two commits name contents/a.mdx three times, among paths
\* that are no candidates, and the candidates are that path and
\* settings/site.json
C23_Witness ==
    /\ calc.fn = "filterRelevantFiles"
    /\ Len(calc.arg) = 2
    /\ calc.arg[1].added = <<P_aJson, P_a, P_siteMdx>>
    /\ calc.arg[1].removed = <<P_a, P_site, P_docs>>
    /\ calc.arg[2].modified = <<P_aJson, P_a, P_siteMdx>>
    /\ calc.out.contentFiles = <<P_a>>
    /\ calc.out.settingFiles = <<P_site>>

----------------------------------------------------------------------------
(* Properties of GitHubSyncService.                                        *)

\* C24: detectChanges returns, each once, exactly the remote target files
\* whose path has no entry in localFileShas or whose sha differs from the
\* stored one; with an empty map that is every target file.
C24_ChangedAreUnknownOrDifferent ==
    calc.fn = "detectChanges" =>
        LET local == calc.arg.localFileShas
        IN  /\ NoRepeats(calc.out.changed)
            /\ Range(calc.out.changed) =
                 { f \in Range(calc.out.targets) :
                     \/ f.path \notin DOMAIN local
                     \/ local[f.path] # f.sha }
            /\ DOMAIN local = {} => calc.out.changed = calc.out.targets

\* C24 witness: of the target files one has the stored sha, one has another
\* stored sha, others have none; the unchanged one is no candidate
C24_Witness ==
    /\ calc.fn = "detectChanges"
    /\ calc.arg.okContents /\ calc.arg.okSettings
    /\ DOMAIN calc.arg.localFileShas = {P_a, P_site}
    /\ calc.arg.localFileShas[P_a] = RemoteSha
    /\ calc.arg.localFileShas[P_site] = "s2"
    /\ \A f \in Range(calc.out.changed) : f.path # P_a
    /\ \E f \in Range(calc.out.changed) : f.path = P_site
    /\ \E f \in Range(calc.out.changed) : f.path = P_index
    /\ \E f \in Range(calc.out.targets) : f.path = P_a

\* the .mdx files of a repository at any depth below contents/
MdxFilesBelowContents(tree) ==
    UNION { { tree[d][i].path : i \in { k \in DOMAIN tree[d] :
                                          /\ tree[d][k].type = "file"
                                          /\ EndsWith(tree[d][k].name, S_mdx) } }
            : d \in { x \in DOMAIN tree : StartsWith(x, S_contentsDir) } }

\* C25: when the listing of contents/ succeeds, every .mdx file at any depth
\* below contents/ is among the target files that getTargetFiles returns and
\* detectChanges examines.
C25_TargetFilesIncludeSubdirectories ==
    (calc.fn = "detectChanges" /\ calc.arg.okContents)
        => \A path \in MdxFilesBelowContents(calc.arg.tree) :
             \E f \in Range(calc.out.targets) : f.path = path

----------------------------------------------------------------------------
(* Properties of getAllMDXFiles.                                           *)

\* the entries of all listings of a tree
AllEntries(tree) == UNION { Range(tree[d]) : d \in DOMAIN tree }

\* C26: for a finite directory tree getAllMDXFiles returns every file whose
\* name ends in '.mdx', at any depth below contents/, exactly once, and no
\* other file and no directory.
C26_ListingIsAllArticlesOnce ==
    calc.fn = "getAllMDXFiles" =>
        /\ NoRepeats(calc.out)
        /\ Range(calc.out) =
             { e \in AllEntries(calc.arg) :
                 e.type = "file" /\ EndsWith(e.name, S_mdx) }

\* C26 witness: a tree three directories deep, with other files and with a
\* directory named d.mdx, whose articles at depth 0, 3 and below d.mdx are
\* all listed
C26_Witness ==
    /\ calc.fn = "getAllMDXFiles"
    /\ S_contentsDir \o <<"/","s","/","s","/","s">> \in DOMAIN calc.arg
    /\ \E e \in AllEntries(calc.arg) : e.name = N_notes
    /\ \E e \in AllEntries(calc.arg) : e.name = N_dirMdx /\ e.type = "dir"
    /\ \E e \in Range(calc.out) :
         e.path = S_contentsDir \o <<"/","s","/","s","/","s","/">> \o N_a
    /\ \E e \in Range(calc.out) : e.path = S_contentsDir \o <<"/">> \o N_a
    /\ Len(calc.out) >= 3

----------------------------------------------------------------------------
(* Properties of the summaries.                                            *)

\* C27: the summary accounts for every candidate once: at the end of
\* recursiveSync syncedCount + errorCount is the number of listed article
\* files, and when syncFiles returns with success filesProcessed plus the
\* number of errors is the number of changed files.
C27_SummaryCountsEveryCandidate ==
    /\ rs.pc = "done" =>
         rs.syncedCount + rs.errorCount = Len(rs.allMDXFiles)
    /\ (inv[1].kind = "syncFiles" /\ inv[1].pc = "returned"
        /\ inv[1].result.success)
       => inv[1].result.filesProcessed + Len(inv[1].result.errors)
            = Len(inv[1].changedFiles)

\* C27 witness: recursiveSync ended with synced and failed articles, and
\* syncFiles returned after it had processed some of four changed files and
\* failed on the others
C27_Witness ==
    /\ rs.pc = "done" /\ rs.syncedCount >= 1 /\ rs.errorCount >= 1
    /\ inv[1].kind = "syncFiles" /\ inv[1].pc = "returned"
    /\ Len(inv[1].changedFiles) = 4
    /\ inv[1].result.filesProcessed >= 1
    /\ Len(inv[1].result.errors) >= 1

----------------------------------------------------------------------------
(* Properties of fetchWithRetry.                                           *)

\* the call has ended
FetchEnded == inv[1].kind = "fetchWithRetry" /\ inv[1].pc \in {"returned", "thrown"}

\* the call has received n responses, each a server error
AllServerErrors(n) ==
    /\ Len(inv[1].responses) = n
    /\ \A i \in 1..n : inv[1].responses[i].status >= 500

\* C28: a fetchWithRetry call issues at most maxRetries requests whatever
\* the responses are, and it ends; when every response is a 5xx it sleeps
\* 2 s after the first and 4 s after the second and returns the third.
C28_RetriesAreCappedAndEnd ==
    /\ [](inv[1].kind = "fetchWithRetry" =>
            /\ inv[1].requests <= MaxRetries
            /\ AllServerErrors(MaxRetries) =>
                 /\ inv[1].pc = "returned"
                 /\ inv[1].sleeps = << Sleep("backoff", 2, 0, 1),
                                       Sleep("backoff", 4, 2, 2) >>)
    /\ (inv[1].kind = "fetchWithRetry") ~> FetchEnded

\* C28 witness: the third 5xx in a row has been returned, six seconds after
\* the call
C28_Witness ==
    /\ FetchEnded /\ AllServerErrors(MaxRetries)
    /\ inv[1].pc = "returned" /\ now = 6 /\ inv[1].requests = 3

\* C29: a call that has ended slept, after every primary rate-limit
\* response, until the reset time plus one second, and issued another
\* request after each of these sleeps.
C29_RateLimitSleepIsFollowedByRequest ==
    FetchEnded =>
        \A i \in DOMAIN inv[1].sleeps :
            LET s == inv[1].sleeps[i]
            IN  s.why = "rateLimit" =>
                  /\ s.seconds = Max0(ExtractRateLimitInfo(inv[1].responses[s.requests]).reset
                                       - s.at + 1)
                  /\ inv[1].requests > s.requests

----------------------------------------------------------------------------
(* Properties of validateFrontmatter.                                      *)

\* C30: the result of validateFrontmatter has a status only when it is one
\* of draft, published, archived, and an accessLevel only when it is one of
\* public, private, premium.
C30_EnumFieldsAreValidOrOmitted ==
    calc.fn = "validateFrontmatter" =>
        /\ "status" \in DOMAIN calc.out =>
             Includes(FrontmatterStatuses, calc.out["status"])
        /\ "accessLevel" \in DOMAIN calc.out =>
             Includes(FrontmatterAccessLevels, calc.out["accessLevel"])


\* validated front-matter has been validated again
Revalidated == calc.fn = "revalidate"

\* C31: validating a validated front-matter again gives the same object,
\* and so does validating what JSON.parse reads from its JSON.stringify.
C31_ValidatedSurvivesRoundTrip ==
    Revalidated => calc.out.again = calc.arg /\ calc.out.reparsed = calc.arg

\* validateFrontmatter is idempotent on the values themselves
RevalidationIsIdempotent == Revalidated => calc.out.again = calc.arg

----------------------------------------------------------------------------
(* Properties of generateSlug.                                             *)

\* C32: a slug generateSlug returns holds only lowercase letters, digits
\* and hyphens, has no white space left, and neither starts nor ends with
\* a hyphen.
C32_SlugIsCleanAndTrimmed ==
    calc.fn = "generateSlug" =>
        /\ \A i \in DOMAIN calc.out : calc.out[i] \in LowerAlphanumeric \cup {"-"}
        /\ calc.out # <<>> => calc.out[1] # "-" /\ calc.out[Len(calc.out)] # "-"

----------------------------------------------------------------------------
(* Properties of recursiveSync with an unreachable store.                  *)

\* how many turns of the loop over allMDXFiles met the unreachable store
RECURSIVE StoreDownCount(_)
StoreDownCount(log) ==
    IF log = <<>> THEN 0
    ELSE (IF Head(log).kind = "storeDown" THEN 1 ELSE 0) + StoreDownCount(Tail(log))

\* C33: once an upsert of the article batch has failed because the store is
\* unreachable, recursiveSync sends no further item of the batch to the
\* store: at most one turn of the loop meets the unreachable store.
C33_OutageAbortsTheBatch == StoreDownCount(rs.log) <= 1

----------------------------------------------------------------------------
(* Properties of the course of a recursiveSync run.                        *)

\* C34: a recursiveSync run that has passed its environment check reaches
\* the summary, whichever of its calls fail.
C34_RunReachesSummary == (rs.pc = "listing") ~> (rs.pc = "done")

\* a run that has started ends, in the summary or in process.exit(1)
RunEnds == (rs.pc = "listing") ~> (rs.pc \in {"done", "exit1"})

----------------------------------------------------------------------------
(* Properties of the slugs across files and sync paths.                    *)

\* C35: processContentFiles and recursiveSync compute the same slug for an
\* article file, whatever its path and front-matter.
C35_SyncPathsAgreeOnSlug ==
    calc.fn = "slugOnEachPath" => calc.out.webhook = calc.out.recursive

\* C36: recursiveSync gives two distinct article paths distinct slugs.
C36_RecursiveSlugIsInjective ==
    calc.fn = "slugPair" /\ calc.arg[1] # calc.arg[2] => calc.out[1] # calc.out[2]

----------------------------------------------------------------------------
(* Properties of syncSettingsToDatabase.                                   *)

\* C37: when syncSettingsToDatabase has returned, every settings file it
\* counted as a success has a record under its key that holds its content.
C37_CountedSettingsAreStored ==
    inv[1].kind = "syncSettings" /\ inv[1].pc = "returned" =>
        /\ inv[1].success = Len(inv[1].counted)
        /\ \A i \in DOMAIN inv[1].counted :
             \E r \in SelectByKey(db, SettingsSyncKey(inv[1].counted[i].path)) :
                r.value = RawValue(inv[1].counted[i].content)


\* the last response of the call is a 403 that carries neither rate-limit
\* headers nor retry-after
PlainForbiddenAnswered ==
    /\ inv[1].kind = "fetchWithRetry" /\ inv[1].responses # <<>>
    /\ inv[1].responses[Len(inv[1].responses)] = Response(403, -1, -1, -1)

\* C38: a 403 without x-ratelimit-remaining and without retry-after is
\* returned to the caller: the call neither sleeps nor requests again.
C38_PlainForbiddenIsReturned == PlainForbiddenAnswered => inv[1].pc = "returned"


\* the listing of a directory below contents/ has failed and ended the run
ListingFailed == rs.pc = "exit1" /\ rs.todo # <<>>

\* C39: recursiveSync writes to the store only after getAllMDXFiles has
\* listed every directory below contents/; while it lists, and when a
\* listing has failed, the store is as it was at the start of the run.
C39_ListingPrecedesEveryWrite ==
    /\ [](rs.pc = "listing" \/ ListingFailed =>
            Store = storeAtStart /\ rs.log = <<>> /\ rs.slog = <<>>)
    /\ [][contents' # contents \/ settings' # settings =>
            rs.pc \in {"articles", "settings"} /\ rs.todo = <<>>]_vars

\* C39 witness: the listing of a subdirectory has failed after article files
\* had been found
C39_Witness ==
    /\ ListingFailed /\ rs.allMDXFiles # <<>>
    /\ Head(rs.todo).path # S_contentsDir

====
